---------------------------- MODULE Spec2Model ----------------------------
(***************************************************************************)
(* A model of nancy (src/nancy/__init__.py): the macro parser, the macro   *)
(* expander, the overlay of input trees and the tree walker.               *)
(*                                                                         *)
(* Bytes are sequences of one-character strings.  Positions are 1-based:   *)
(* position p of the model is index p - 1 of the Python code.  A file name *)
(* is a sequence of characters and a path is a sequence of file names; the *)
(* path of the current directory is the empty sequence.                    *)
(***************************************************************************)
EXTENDS Integers, Sequences, FiniteSets, TLC

VARIABLES
    fs,         \* the filesystem: path -> entry (inputs, outside, output tree)
    programs,   \* what each executable does: path -> [stdout, returncode]
    clock,      \* the time that a write stamps on a file
    trees,      \* the fields of the Trees object
    work_queue, \* Trees.work_queue: the tasks put and not yet got
    unfinished, \* the queue's count of tasks put and not yet done
    workers,    \* the state of each worker task
    pc,         \* where Trees.process is
    error,      \* the message of an exception raised by a task, or NoErr
    stdout,     \* the bytes written to sys.stdout
    awaited,    \* history: the tasks awaited so far, in order
    text,       \* the bytes handed to the operation under test
    call        \* the last operation applied and what it returned

vars == <<fs, programs, clock, trees, work_queue, unfinished, workers, pc,
          error, stdout, awaited, text, call>>

\* Trees.inputs, Trees.output, Trees.build
inputs == trees.inputs
output == trees.output
build == trees.build

(***************************************************************************)
(* Bounds of the model.                                                    *)
(***************************************************************************)
MaxTextLen == 5
MaxLinkDepth == 2
NWorkers == 2
RecursionLimit == 4

(***************************************************************************)
(* Bytes.                                                                  *)
(***************************************************************************)
NL == "\n"
BS == "\\"

Letters == {"a", "b", "c", "d", "e", "f", "g", "h", "i", "j", "k", "l", "m",
            "n", "o", "p", "q", "r", "s", "t", "u", "v", "w", "x", "y", "z",
            "A", "B", "E"}
Digits == {"0", "1", "2", "3", "4", "5", "6", "7", "8", "9"}

\* [^\W\d_]
IsLetter(c) == c \in Letters
\* \w
IsWord(c) == c \in Letters \cup Digits \cup {"_"}

RECURSIVE Flatten(_)
Flatten(ss) == IF ss = <<>> THEN <<>> ELSE Head(ss) \o Flatten(Tail(ss))

\* text[a:b] of Python with 1-based a (inclusive) and b (exclusive).
Slice(t, a, b) == SubSeq(t, a, b - 1)

\* b",".join(parts)
RECURSIVE JoinWith(_, _)
JoinWith(sep, parts) ==
    IF parts = <<>> THEN <<>>
    ELSE IF Len(parts) = 1 THEN parts[1]
    ELSE parts[1] \o sep \o JoinWith(sep, Tail(parts))

\* All sequences over S of length at most n.
SeqsUpTo(S, n) == UNION {[1..k -> S] : k \in 0..n}

NoErr == ""

Front(p) == SubSeq(p, 1, Len(p) - 1)
Last(p) == p[Len(p)]

(***************************************************************************)
(* strip_final_newline: re.sub(b"\n$", b"", s).  Without re.MULTILINE "$"  *)
(* matches at the end of the bytes and also just before a newline that is  *)
(* the last byte, so the substitution removes the last newline and, when   *)
(* there is one, the newline before it too.                                *)
(***************************************************************************)
strip_final_newline(s) ==
    LET n == Len(s) IN
    IF n >= 2 /\ s[n] = NL /\ s[n - 1] = NL THEN SubSeq(s, 1, n - 2)
    ELSE IF n >= 1 /\ s[n] = NL THEN SubSeq(s, 1, n - 1)
    ELSE s

(***************************************************************************)
(* parse_arguments(text, arg_start, initial_closing).                      *)
(* The result is [err, args, pos]: err is the message of the ValueError    *)
(* raised, or NoErr; pos is the position after the closing delimiter.      *)
(***************************************************************************)
Openers == {"(", "{"}

\* The close bracket pushed for an opening bracket.
ClosingForAlwaysParen(c) == ")"

ClosingFor(c) == IF c = "(" THEN ")" ELSE "}"

\* The test that makes a comma an argument separator.
IsSeparatorAnyDepth(t, closing, i) == t[i] = "," /\ t[i - 1] # BS

IsSeparatorNoEscape(t, closing, i) == Len(closing) = 1 /\ t[i] = ","

IsSeparator(t, closing, i) ==
    Len(closing) = 1 /\ t[i] = "," /\ t[i - 1] # BS

MissingMessage(c) == IF c = ")" THEN "missing )" ELSE "missing }"

\* The error for bytes that end inside a bracket.
MissingErrorOutermost(closing) == MissingMessage(closing[1])

MissingError(closing) == MissingMessage(closing[Len(closing)])

\* The position returned for a closing delimiter found at next_index.
AfterClosingAt(next_index) == next_index

AfterClosing(next_index) == next_index + 1

RECURSIVE ParseLoop(_, _, _, _, _)
ParseLoop(t, arg_start, closing, next_index, args) ==
    IF next_index > Len(t)
    THEN [err |-> MissingError(closing), args |-> args, pos |-> next_index]
    ELSE IF t[next_index] = closing[Len(closing)]
    THEN IF Len(closing) = 1
         THEN [err |-> NoErr,
               args |-> Append(args, Slice(t, arg_start + 1, next_index)),
               pos |-> AfterClosing(next_index)]
         ELSE ParseLoop(t, arg_start, SubSeq(closing, 1, Len(closing) - 1),
                        next_index + 1, args)
    ELSE IF t[next_index] \in Openers
    THEN ParseLoop(t, arg_start, Append(closing, ClosingFor(t[next_index])),
                   next_index + 1, args)
    ELSE IF IsSeparator(t, closing, next_index)
    THEN ParseLoop(t, next_index, closing, next_index + 1,
                   Append(args, Slice(t, arg_start + 1, next_index)))
    ELSE ParseLoop(t, arg_start, closing, next_index + 1, args)

parse_arguments(t, arg_start, initial_closing) ==
    ParseLoop(t, arg_start, <<initial_closing>>, arg_start + 1, <<>>)

(***************************************************************************)
(* command_to_str(name, args, input).  None is NoArgs or NoBytes.         *)
(***************************************************************************)
NoArgs == <<<<"None">>>>
NoBytes == <<"None">>

ArgsStringNoJoin(args) ==
    IF args = NoArgs THEN <<>> ELSE <<"(">> \o Flatten(args) \o <<")">>

ArgsString(args) ==
    IF args = NoArgs THEN <<>> ELSE <<"(">> \o JoinWith(<<",">>, args) \o <<")">>

InputString(input) ==
    IF input = NoBytes THEN <<>> ELSE <<"{">> \o input \o <<"}">>

command_to_str(name, args, input) ==
    <<"$">> \o name \o ArgsString(args) \o InputString(input)

(***************************************************************************)
(* MACRO_REGEX.search(text, startpos): an optional backslash, a dollar, a  *)
(* letter and then word characters.  The leftmost match at or after        *)
(* startpos, as [found, start, end, escaped, name] with end the position   *)
(* after the match; found is FALSE when the search returns None.           *)
(***************************************************************************)
RECURSIVE WordEnd(_, _)
WordEnd(t, i) == IF i <= Len(t) /\ IsWord(t[i]) THEN WordEnd(t, i + 1) ELSE i

\* A macro name starts at position i: "$" and a letter.
DollarAt(t, i) == i + 1 <= Len(t) /\ t[i] = "$" /\ IsLetter(t[i + 1])

RECURSIVE MacroSearch(_, _)
MacroSearch(t, startpos) ==
    IF startpos > Len(t)
    THEN [found |-> FALSE, start |-> 0, end |-> 0, escaped |-> FALSE,
          name |-> <<>>]
    ELSE IF t[startpos] = BS /\ DollarAt(t, startpos + 1)
    THEN [found |-> TRUE, start |-> startpos, end |-> WordEnd(t, startpos + 2),
          escaped |-> TRUE,
          name |-> Slice(t, startpos + 2, WordEnd(t, startpos + 2))]
    ELSE IF DollarAt(t, startpos)
    THEN [found |-> TRUE, start |-> startpos, end |-> WordEnd(t, startpos + 1),
          escaped |-> FALSE,
          name |-> Slice(t, startpos + 1, WordEnd(t, startpos + 1))]
    ELSE MacroSearch(t, startpos + 1)

(***************************************************************************)
(* Paths.  A path is a sequence of names; an absolute path starts with the *)
(* name Slash.                                                             *)
(***************************************************************************)
Slash == <<"/">>
Dot == <<".">>
DotDot == <<".", ".">>

IsAbsolute(p) == p # <<>> /\ p[1] = Slash

\* a / b of pathlib
JoinPath(a, b) == IF IsAbsolute(b) THEN b ELSE a \o b

\* The position of the first "/" of t at or after i, or Len(t) + 1.
RECURSIVE NextSlash(_, _)
NextSlash(t, i) ==
    IF i > Len(t) \/ t[i] = "/" THEN i ELSE NextSlash(t, i + 1)

\* The components of t between slashes, from position i on.
RECURSIVE SplitSlash(_, _)
SplitSlash(t, i) ==
    IF i > Len(t) THEN <<>>
    ELSE <<Slice(t, i, NextSlash(t, i))>> \o SplitSlash(t, NextSlash(t, i) + 1)

\* Path(os.fsdecode(b)): empty and "." components are dropped.
PathOfBytes(b) ==
    (IF b # <<>> /\ b[1] = "/" THEN <<Slash>> ELSE <<>>)
    \o SelectSeq(SplitSlash(b, 1), LAMBDA n : n # <<>> /\ n # Dot)

\* bytes(path)
BytesOfPath(p) ==
    IF p = <<>> THEN Dot
    ELSE IF IsAbsolute(p) THEN <<"/">> \o JoinWith(<<"/">>, Tail(p))
    ELSE JoinWith(<<"/">>, p)

\* os.path.normpath on a path: "name/.." is collapsed, a leading ".." of a
\* relative path stays and a ".." at the root of an absolute path goes.
RECURSIVE NormLoop(_, _)
NormLoop(done, rest) ==
    IF rest = <<>> THEN done
    ELSE IF Head(rest) # DotDot THEN NormLoop(Append(done, Head(rest)), Tail(rest))
    ELSE IF done # <<>> /\ Last(done) = Slash THEN NormLoop(done, Tail(rest))
    ELSE IF done # <<>> /\ Last(done) # DotDot THEN NormLoop(Front(done), Tail(rest))
    ELSE NormLoop(Append(done, DotDot), Tail(rest))

normpath(p) == NormLoop(<<>>, p)

\* path.parent and path.name
Parent(p) == IF p = <<>> THEN <<>> ELSE Front(p)
NameOf(p) == IF p = <<>> THEN <<>> ELSE Last(p)

\* (start_path / "_").parents: start_path, its parent, ... down to ".".
Parents(start_path) ==
    [i \in 1..(Len(start_path) + 1) |-> SubSeq(start_path, 1, Len(start_path) + 1 - i)]

(***************************************************************************)
(* The file name conventions: COPY_REGEX, TEMPLATE_REGEX, INPUT_REGEX.     *)
(***************************************************************************)
StartsAt(n, i, w) == i + Len(w) - 1 <= Len(n) /\ SubSeq(n, i, i + Len(w) - 1) = w

\* The lookahead (?=\.[^.]+$|$) at position i: the end of the name, or a dot
\* and then one or more characters that are not dots up to the end.
FinalExtensionAt(n, i) ==
    \/ i > Len(n)
    \/ /\ i < Len(n)
       /\ n[i] = "."
       /\ \A k \in (i + 1)..Len(n) : n[k] # "."

\* The lookahead (?=\.|$)
DotOrEndAt(n, i) == i > Len(n) \/ n[i] = "."

CopySuffix == <<".", "c", "o", "p", "y">>
TemplateSuffix == <<".", "n", "a", "n", "c", "y">>
InputSuffix == <<".", "i", "n">>

CopyMatches(n) ==
    {i \in 1..Len(n) : StartsAt(n, i, CopySuffix) /\ DotOrEndAt(n, i + 5)}
TemplateMatches(n) ==
    {i \in 1..Len(n) : StartsAt(n, i, TemplateSuffix) /\ FinalExtensionAt(n, i + 6)}
InputMatches(n) ==
    {i \in 1..Len(n) : StartsAt(n, i, InputSuffix) /\ FinalExtensionAt(n, i + 3)}

\* re.search(COPY_REGEX, name) and the like
IsCopy(n) == CopyMatches(n) # {}
IsTemplate(n) == TemplateMatches(n) # {}
IsInput(n) == InputMatches(n) # {}

\* name.replace(".copy", "", 1): the first ".copy" goes, wherever it is.
RemoveFirstCopy(n) ==
    LET at == {i \in 1..Len(n) : StartsAt(n, i, CopySuffix)} IN
    IF at = {} THEN n
    ELSE LET i == CHOOSE k \in at : \A m \in at : k <= m
         IN  SubSeq(n, 1, i - 1) \o SubSeq(n, i + 5, Len(n))

\* re.sub(TEMPLATE_REGEX, "", name): every match goes.
RemoveTemplate(n) ==
    LET gone == UNION {i..(i + 5) : i \in TemplateMatches(n)}
        keep(i) == i \notin gone
    IN  [k \in 1..Cardinality({i \in 1..Len(n) : keep(i)}) |->
            n[CHOOSE i \in 1..Len(n) :
                keep(i) /\ Cardinality({j \in 1..i : keep(j)}) = k]]

(***************************************************************************)
(* The filesystem.  fs maps a path (from the current directory) to an      *)
(* entry [kind, data, target, mtime]: kind is "none", "file", "dir" or     *)
(* "link", data the bytes of a file, target the path a symbolic link       *)
(* holds, mtime the modification time of a file.                           *)
(***************************************************************************)
NoPath == <<<<"None">>>>

NoEntry == [kind |-> "none", data |-> <<>>, target |-> <<>>, mtime |-> 0]
DirE == [kind |-> "dir", data |-> <<>>, target |-> <<>>, mtime |-> 0]
FileAt(data, mtime) ==
    [kind |-> "file", data |-> data, target |-> <<>>, mtime |-> mtime]
FileE(data) == FileAt(data, 0)
LinkE(target) == [kind |-> "link", data |-> <<>>, target |-> target, mtime |-> 0]

IsPrefix(a, b) == Len(a) <= Len(b) /\ SubSeq(b, 1, Len(a)) = a

\* lstat of a path with no symbolic link or ".." in it.
Raw(p) == IF p = <<>> THEN DirE ELSE IF p \in DOMAIN fs THEN fs[p] ELSE NoEntry

\* The kernel's path resolution: the real path of cur / rest, following at
\* most fuel symbolic links, or NoPath when the path does not resolve.
RECURSIVE Walk(_, _, _)
Walk(cur, rest, fuel) ==
    IF rest = <<>> THEN cur
    ELSE IF Raw(cur).kind # "dir" THEN NoPath
    ELSE IF Head(rest) = DotDot
    THEN IF cur = <<>> THEN NoPath ELSE Walk(Front(cur), Tail(rest), fuel)
    ELSE LET p == Append(cur, Head(rest)) IN
         CASE Raw(p).kind = "none" -> NoPath
           [] Raw(p).kind = "link" ->
                IF fuel = 0 THEN NoPath
                ELSE Walk(<<>>, Raw(p).target \o Tail(rest), fuel - 1)
           [] OTHER -> Walk(p, Tail(rest), fuel)

\* Path.resolve() of a path that exists.
Resolve(p) == Walk(<<>>, p, MaxLinkDepth)

\* Path.exists(), Path.is_dir(), Path.is_file(): all follow symbolic links.
Exists(p) == Resolve(p) # NoPath
IsDir(p) == Exists(p) /\ Raw(Resolve(p)).kind = "dir"
IsFile(p) == Exists(p) /\ Raw(Resolve(p)).kind = "file"

\* Path.is_symlink(): the last component itself is a symbolic link.
IsSymlink(p) ==
    /\ p # <<>>
    /\ Last(p) # DotDot
    /\ Resolve(Front(p)) # NoPath
    /\ Raw(Append(Resolve(Front(p)), Last(p))).kind = "link"

\* Path.read_bytes()
ReadBytes(p) == Raw(Resolve(p)).data

\* Path.is_relative_to and Path.relative_to
IsRelativeTo(p, root) == IsPrefix(root, p)
RelativeTo(p, root) == SubSeq(p, Len(root) + 1, Len(p))

\* The names os.scandir yields for a directory.
ScandirNames(dir) ==
    {Last(p) : p \in {q \in DOMAIN fs : q # <<>> /\ Front(q) = Resolve(dir)
                                       /\ fs[q].kind # "none"}}

(***************************************************************************)
(* Trees.find_object and Trees.scandir.                                    *)
(***************************************************************************)
\* The test for a symbolic link that is resolved again through the overlay.
LinkInsideNever(path, root) == FALSE

LinkInside(path, root) ==
    IsSymlink(path) /\ IsRelativeTo(Resolve(path), Resolve(root))

\* The order in which find_object scans the roots.
RootOrderReversed == [i \in 1..Len(inputs) |-> Len(inputs) + 1 - i]

RootOrder == [i \in 1..Len(inputs) |-> i]

RECURSIVE FindFromRoot(_, _)
FindFromRoot(obj, i) ==
    IF i > Len(inputs) THEN NoPath
    ELSE LET root == inputs[RootOrder[i]]
             path == JoinPath(root, obj)
         IN  IF Exists(path)
             THEN IF LinkInside(path, root)
                  THEN FindFromRoot(RelativeTo(Resolve(path), Resolve(root)), 1)
                  ELSE path
             ELSE FindFromRoot(obj, i + 1)

find_object(obj) == FindFromRoot(obj, 1)

\* The roots whose obj is listed by scandir.
ScannedRootsFirstOnly(obj) ==
    {i \in 1..Len(inputs) : IsDir(JoinPath(inputs[i], obj))
        /\ \A j \in 1..(i - 1) : ~IsDir(JoinPath(inputs[j], obj))}

ScannedRoots(obj) == {i \in 1..Len(inputs) : IsDir(JoinPath(inputs[i], obj))}

\* list(names): the order of the list is that of a Python set, so the model
\* keeps the set.
scandir(obj) == UNION {ScandirNames(JoinPath(inputs[i], obj)) : i \in ScannedRoots(obj)}

(***************************************************************************)
(* External programs.  shutil.which looks a bare name up in the one        *)
(* directory of the system search path; a program's output and exit code   *)
(* are what the environment (programs) says.                               *)
(***************************************************************************)
BinDir == <<<<"b", "i", "n">>>>

which(filename) ==
    IF Len(filename) = 1 /\ ~IsAbsolute(filename)
    THEN IF IsFile(BinDir \o filename) THEN BinDir \o filename ELSE NoPath
    ELSE IF filename # <<>> /\ IsFile(filename) THEN filename ELSE NoPath

ProcessStdout(cmd) ==
    IF cmd.exe \in DOMAIN programs THEN programs[cmd.exe].stdout ELSE <<>>

ProcessReturnCode(cmd) ==
    IF cmd.exe \in DOMAIN programs THEN programs[cmd.exe].returncode ELSE 0

ErrorCodeMessageOne(rc) == "Error code 1"

ErrorCodeMessage(rc) == IF rc = 1 THEN "Error code 1" ELSE "Error code 2"

(***************************************************************************)
(* Expand.  An Expand object is e = [cls, real_path, path, output_path];   *)
(* cls is the macros class, "Macros" or "RunMacros".  Its mutable part is  *)
(* threaded through the calls as st = [stack, ev]: stack is _stack, ev the *)
(* history of what the expansion did (macro calls, file reads, processes   *)
(* started and awaited), which the code does not keep.                     *)
(*                                                                         *)
(* Every call returns [err, out, cmd, inputs, stack, ev]: err the message  *)
(* of the exception raised or NoErr, out the bytes returned, cmd the       *)
(* Command returned in place of bytes (a sequence of length 0 or 1),       *)
(* inputs the paths returned with the bytes, and stack and ev the state    *)
(* the call leaves.                                                        *)
(***************************************************************************)
NewExpand(cls, real_path, path) ==
    [cls |-> cls, real_path |-> real_path, path |-> path, output_path |-> NoPath]

NewState == [stack |-> <<>>, ev |-> <<>>]

Ok(out, ins, st) ==
    [err |-> NoErr, out |-> out, cmd |-> <<>>, inputs |-> ins,
     stack |-> st.stack, ev |-> st.ev]

Raise(msg, st) ==
    [err |-> msg, out |-> <<>>, cmd |-> <<>>, inputs |-> <<>>,
     stack |-> st.stack, ev |-> st.ev]

StateOf(r) == [stack |-> r.stack, ev |-> r.ev]

Log(st, op, arg) == [st EXCEPT !.ev = Append(@, [op |-> op, arg |-> arg])]

\* obj in self._stack
OnStackNever(obj, stack) == FALSE

OnStack(obj, stack) == \E i \in 1..Len(stack) : stack[i] = obj

RECURSIVE FindOnPathFrom(_, _, _, _)

\* One turn of the loop of find_on_path, obj being what find_object returned.
FindOnPathNext(obj, parents, i, norm_file, stack) ==
    IF obj # NoPath /\ IsFile(obj) /\ ~OnStack(obj, stack) THEN obj
    ELSE FindOnPathFrom(parents, i + 1, norm_file, stack)

FindOnPathFrom(parents, i, norm_file, stack) ==
    IF i > Len(parents) THEN NoPath
    ELSE FindOnPathNext(find_object(JoinPath(parents[i], norm_file)),
                        parents, i, norm_file, stack)

find_on_path(start_path, file, stack) ==
    FindOnPathFrom(Parents(start_path), 1, normpath(file), stack)

\* The files find_on_path passed over because they are on the stack.
StackHits(start_path, file, stack) ==
    {obj \in {find_object(JoinPath(Parents(start_path)[i], normpath(file))) :
                 i \in 1..Len(Parents(start_path))} :
        obj # NoPath /\ IsFile(obj) /\ OnStack(obj, stack)}

CannotFind == "cannot find"
CannotFindProgram == "cannot find program"

\* The end of file_arg, file_path being what find_on_path returned and
\* exe_path what shutil.which returns.
FileArgFoundSystemFirst(file_path, exe, exe_path) ==
    IF exe /\ exe_path # NoPath THEN [err |-> NoErr, path |-> exe_path]
    ELSE IF file_path # NoPath THEN [err |-> NoErr, path |-> file_path]
    ELSE IF ~exe THEN [err |-> CannotFind, path |-> NoPath]
    ELSE [err |-> CannotFindProgram, path |-> NoPath]

FileArgFound(file_path, exe, exe_path) ==
    IF file_path # NoPath THEN [err |-> NoErr, path |-> file_path]
    ELSE IF ~exe THEN [err |-> CannotFind, path |-> NoPath]
    ELSE IF exe_path # NoPath THEN [err |-> NoErr, path |-> exe_path]
    ELSE [err |-> CannotFindProgram, path |-> NoPath]

\* file_arg returns [err, path].
file_arg(arg, exe, e, st) ==
    FileArgFound(find_on_path(Parent(e.path), PathOfBytes(arg), st.stack),
                 exe, which(PathOfBytes(arg)))

\* re.sub(rb"\\,", b",", arg)
RECURSIVE UnescapeCommas(_)
UnescapeCommas(arg) ==
    IF arg = <<>> THEN <<>>
    ELSE IF Len(arg) >= 2 /\ arg[1] = BS /\ arg[2] = ","
    THEN <<",">> \o UnescapeCommas(SubSeq(arg, 3, Len(arg)))
    ELSE <<arg[1]>> \o UnescapeCommas(Tail(arg))

MacroNames == {<<"p", "a", "t", "h">>,
               <<"o", "u", "t", "p", "u", "t", "p", "a", "t", "h">>,
               <<"e", "x", "p", "a", "n", "d">>,
               <<"p", "a", "s", "t", "e">>,
               <<"i", "n", "c", "l", "u", "d", "e">>,
               <<"r", "u", "n">>}

NoSuchMacro == "no such macro"
OutputPathUnavailable == "$outputpath is not available while expanding the filename"

RECURSIVE expand(_, _, _)
RECURSIVE ExpandLoop(_, _, _, _, _, _)
RECURSIVE do_macro(_, _, _, _, _)
RECURSIVE ExpandArgs(_, _, _, _, _, _)
RECURSIVE CallMacro(_, _, _, _, _)
RECURSIVE include(_, _, _)

expand_arg(arg, e, st) == expand(UnescapeCommas(arg), e, st)

\* Expand.include: the stack is popped when expand returns, not when it raises.
\* An include nested RecursionLimit deep ends in the interpreter's
\* RecursionError.
RecursionError == "RecursionError"

PopNot(stack) == stack

Pop(stack) == Front(stack)

\* The end of Expand.include, r being what expand returned.
IncludeReturn(r, file_path) ==
    IF r.err # NoErr THEN r
    ELSE [r EXCEPT !.stack = Pop(r.stack), !.inputs = r.inputs \o <<file_path>>]

include(file_path, e, st) ==
    IF Len(st.stack) >= RecursionLimit THEN Raise(RecursionError, st)
    ELSE
    IncludeReturn(expand(ReadBytes(file_path), e,
                         Log([st EXCEPT !.stack = Append(@, file_path)],
                             "read", file_path)),
                  file_path)

\* Macros.path
MacroPathUnchecked(args, input, e, st) == Ok(BytesOfPath(e.path), <<>>, st)

MacroPath(args, input, e, st) ==
    IF args # NoArgs THEN Raise("$path does not take arguments", st)
    ELSE IF input # NoBytes THEN Raise("$path does not take an input", st)
    ELSE Ok(BytesOfPath(e.path), <<>>, st)

\* Macros.outputpath, with Expand.output_path
MacroOutputpathUnguarded(args, input, e, st) ==
    Ok(BytesOfPath(e.output_path), <<>>, st)

MacroOutputpath(args, input, e, st) ==
    IF args # NoArgs THEN Raise("$outputpath does not take arguments", st)
    ELSE IF input # NoBytes THEN Raise("$outputpath does not take an input", st)
    ELSE IF e.output_path = NoPath THEN Raise(OutputPathUnavailable, st)
    ELSE Ok(BytesOfPath(e.output_path), <<>>, st)

\* What Macros.expand and Macros.include return of the expanded bytes.
StripNot(out) == out

Strip(out) == strip_final_newline(out)

\* return strip_final_newline(expanded), inputs
Stripped(r) == IF r.err # NoErr THEN r ELSE [r EXCEPT !.out = Strip(r.out)]

\* Macros.expand
MacroExpand(args, input, e, st) ==
    IF args # NoArgs THEN Raise("$expand does not take arguments", st)
    ELSE IF input = NoBytes THEN Raise("$expand takes an input", st)
    ELSE Stripped(expand(input, e, st))

\* What Macros.paste returns of the bytes of the file.
PasteStripped(data) == strip_final_newline(data)

PasteBytes(data) == data

\* The end of Macros.paste, f being what file_arg returned.
PasteFile(f, st) ==
    IF f.err # NoErr THEN Raise(f.err, st)
    ELSE Ok(PasteBytes(ReadBytes(f.path)), <<f.path>>, Log(st, "read", f.path))

\* Macros.paste
MacroPaste(args, input, e, st) ==
    IF args = NoArgs \/ Len(args) # 1
    THEN Raise("$paste needs exactly one argument", st)
    ELSE IF input # NoBytes THEN Raise("$paste does not take an input", st)
    ELSE PasteFile(file_arg(args[1], FALSE, e, st), st)

\* The end of Macros.include, f being what file_arg returned.
IncludeFileUnstripped(f, e, st) ==
    IF f.err # NoErr THEN Raise(f.err, st) ELSE include(f.path, e, st)

IncludeFile(f, e, st) ==
    IF f.err # NoErr THEN Raise(f.err, st) ELSE Stripped(include(f.path, e, st))

\* Macros.include
MacroInclude(args, input, e, st) ==
    IF args = NoArgs \/ Len(args) # 1
    THEN Raise("$include needs exactly one argument", st)
    ELSE IF input # NoBytes THEN Raise("$include does not take an input", st)
    ELSE IncludeFile(file_arg(args[1], FALSE, e, st), e, st)

\* The end of Macros.run, f being what file_arg returned.
RunDryFile(f, st) ==
    IF f.err # NoErr THEN Raise(f.err, st) ELSE Ok(<<>>, <<f.path>>, st)

\* Macros.run: the dry run of update mode, which starts no process.
MacroRunDry(args, input, e, st) ==
    IF args = NoArgs THEN Raise("$run needs at least one argument", st)
    ELSE RunDryFile(file_arg(args[1], TRUE, e, st), st)

\* filter_bytes: the process is started with x.out, the expanded input, on
\* its standard input.
\* run that waits for its process before it returns.
StartProcessAndWait(f, args, x) ==
    IF x.err # NoErr THEN x
    ELSE Ok(ProcessStdout([exe |-> f.path]), x.inputs \o <<f.path>>,
            Log(Log(StateOf(x), "start", f.path), "wait", f.path))

StartProcess(f, args, x) ==
    IF x.err # NoErr THEN x
    ELSE [Ok(<<>>, x.inputs \o <<f.path>>, Log(StateOf(x), "start", f.path))
          EXCEPT !.cmd = <<[exe |-> f.path, args |-> Tail(args),
                            stdin |-> x.out]>>]

\* The end of RunMacros.run, f being what file_arg returned.
RunFile(f, args, input, e, st) ==
    IF f.err # NoErr THEN Raise(f.err, st)
    ELSE StartProcess(f, args,
                      IF input = NoBytes THEN Ok(NoBytes, <<>>, st)
                      ELSE expand(input, e, st))

\* RunMacros.run: the process is started here and awaited by the expand that
\* called do_macro.
MacroRun(args, input, e, st) ==
    IF args = NoArgs THEN Raise("$run needs at least one argument", st)
    ELSE RunFile(file_arg(args[1], TRUE, e, st), args, input, e, st)

\* getattr(self._macros, name_str, None) and the call of the macro
CallMacro(name, args, input, e, st) ==
    CASE name = <<"p", "a", "t", "h">> -> MacroPath(args, input, e, st)
      [] name = <<"o", "u", "t", "p", "u", "t", "p", "a", "t", "h">> ->
            MacroOutputpath(args, input, e, st)
      [] name = <<"e", "x", "p", "a", "n", "d">> -> MacroExpand(args, input, e, st)
      [] name = <<"p", "a", "s", "t", "e">> -> MacroPaste(args, input, e, st)
      [] name = <<"i", "n", "c", "l", "u", "d", "e">> ->
            MacroInclude(args, input, e, st)
      [] name = <<"r", "u", "n">> ->
            IF e.cls = "RunMacros" THEN MacroRun(args, input, e, st)
            ELSE MacroRunDry(args, input, e, st)
      [] OTHER -> Raise(NoSuchMacro, st)

\* One turn of the list comprehension of do_macro, r being what expand_arg
\* returned for args[i].
ExpandArgsNext(r, args, i, outs, ins, e) ==
    IF r.err # NoErr
    THEN [err |-> r.err, outs |-> outs, inputs |-> ins,
          stack |-> r.stack, ev |-> r.ev]
    ELSE ExpandArgs(args, i + 1, Append(outs, r.out), ins \o r.inputs,
                    e, StateOf(r))

\* [await self.expand_arg(arg) for arg in args]: returns [err, outs, inputs,
\* stack, ev].
ExpandArgs(args, i, outs, ins, e, st) ==
    IF i > Len(args)
    THEN [err |-> NoErr, outs |-> outs, inputs |-> ins,
          stack |-> st.stack, ev |-> st.ev]
    ELSE ExpandArgsNext(expand_arg(args[i], e, st), args, i, outs, ins, e)

\* The end of do_macro: a is what the arguments expanded to, i what the
\* input expanded to and m what the macro returned.
DoMacroReturn(a, i, m) ==
    IF m.err # NoErr THEN m
    ELSE [m EXCEPT !.inputs = a.inputs \o i.inputs \o m.inputs]

DoMacroCall(a, i, name, e) ==
    IF i.err # NoErr THEN i
    ELSE IF name \notin MacroNames THEN Raise(NoSuchMacro, StateOf(i))
    ELSE DoMacroReturn(a, i, CallMacro(name, a.outs, i.out, e,
                                       Log(StateOf(i), "macro", name)))

DoMacroInput(a, name, input, e) ==
    IF a.err # NoErr THEN Raise(a.err, StateOf(a))
    ELSE DoMacroCall(a, IF input = NoBytes THEN Ok(NoBytes, <<>>, StateOf(a))
                        ELSE expand_arg(input, e, StateOf(a)),
                     name, e)

do_macro(name, args, input, e, st) ==
    DoMacroInput(IF args = NoArgs
                 THEN [err |-> NoErr, outs |-> NoArgs, inputs |-> <<>>,
                       stack |-> st.stack, ev |-> Log(st, "do_macro", name).ev]
                 ELSE ExpandArgs(args, 1, <<>>, <<>>, e, Log(st, "do_macro", name)),
                 name, input, e)

\* The second loop of Expand.expand: the text between the macro calls and
\* what each call returned; a Command is awaited here.
RECURSIVE Communicate(_, _, _, _, _, _, _)
Communicate(t, expansions, i, last_nextpos, expanded, ins, st) ==
    IF i > Len(expansions)
    THEN Ok(expanded \o Slice(t, last_nextpos, Len(t) + 1), ins, st)
    ELSE LET x == expansions[i]
             before == expanded \o Slice(t, last_nextpos, x.start)
         IN  IF x.cmd = <<>>
             THEN Communicate(t, expansions, i + 1, x.next, before \o x.out,
                              ins, st)
             ELSE IF ProcessReturnCode(x.cmd[1]) # 0
             THEN Raise(ErrorCodeMessage(ProcessReturnCode(x.cmd[1])),
                        Log(Log(st, "wait", x.cmd[1].exe), "stderr", x.cmd[1].exe))
             ELSE Communicate(t, expansions, i + 1, x.next,
                              before \o ProcessStdout(x.cmd[1]), ins,
                              Log(st, "wait", x.cmd[1].exe))

\* What a macro returned, scanned for macro calls once more.
Rescanned(r, m) == IF r.err = NoErr THEN r.out ELSE m.out

\* A first loop that expands what $paste returned before it is spliced.
ExpandAppendRescanned(res, nextpos, m, t, e, expansions, ins) ==
    IF m.err # NoErr THEN m
    ELSE ExpandLoop(t, e, nextpos,
                    Append(expansions,
                           [start |-> res.start, next |-> nextpos,
                            cmd |-> m.cmd,
                            out |-> IF res.name = <<"p", "a", "s", "t", "e">> /\ ~res.escaped
                                    THEN Rescanned(expand(m.out, e, StateOf(m)), m)
                                    ELSE m.out]),
                    ins \o m.inputs, StateOf(m))

\* One turn of the first loop of Expand.expand.  res is the match, a and b
\* what parse_arguments returned for the arguments and for the input, and m
\* what do_macro returned.
ExpandAppend(res, nextpos, m, t, e, expansions, ins) ==
    IF m.err # NoErr THEN m
    ELSE ExpandLoop(t, e, nextpos,
                    Append(expansions,
                           [start |-> res.start, next |-> nextpos,
                            cmd |-> m.cmd, out |-> m.out]),
                    ins \o m.inputs, StateOf(m))

ExpandDispatch(res, args, input, nextpos, t, e, expansions, ins, st) ==
    ExpandAppend(res, nextpos,
                 IF res.escaped
                 THEN Ok(command_to_str(res.name, args, input), <<>>, st)
                 ELSE do_macro(res.name, args, input, e, st),
                 t, e, expansions, ins)

ExpandInput(res, a, b, t, e, expansions, ins, st) ==
    IF b.err # NoErr THEN Raise(b.err, st)
    ELSE ExpandDispatch(res, a.args,
                        IF b.args = NoArgs THEN NoBytes
                        ELSE JoinWith(<<",">>, b.args),
                        b.pos, t, e, expansions, ins, st)

ExpandArguments(res, a, t, e, expansions, ins, st) ==
    IF a.err # NoErr THEN Raise(a.err, st)
    ELSE ExpandInput(res, a,
                     IF a.pos <= Len(t) /\ t[a.pos] = "{"
                     THEN parse_arguments(t, a.pos, "}")
                     ELSE [err |-> NoErr, args |-> NoArgs, pos |-> a.pos],
                     t, e, expansions, ins, st)

ExpandMatch(res, t, e, expansions, ins, st) ==
    IF ~res.found THEN Communicate(t, expansions, 1, 1, <<>>, ins, st)
    ELSE ExpandArguments(res,
                         IF res.end <= Len(t) /\ t[res.end] = "("
                         THEN parse_arguments(t, res.end, ")")
                         ELSE [err |-> NoErr, args |-> NoArgs, pos |-> res.end],
                         t, e, expansions, ins, st)

\* The first loop of Expand.expand, from startpos on.
ExpandLoop(t, e, startpos, expansions, ins, st) ==
    ExpandMatch(MacroSearch(t, startpos), t, e, expansions, ins, st)

expand(t, e, st) == ExpandLoop(t, e, 1, <<>>, <<>>, st)

\* Expand.set_output_path: returns [err, e, stack, ev] with e the Expand
\* object whose _output_path is set.
InvalidName == "Invalid name"

WithName(p, name) == Append(Front(p), name)

\* The end of set_output_path, r being what expand returned.
SetOutputPath(r, e) ==
    IF r.err # NoErr
    THEN [err |-> r.err, e |-> e, stack |-> r.stack, ev |-> r.ev]
    ELSE [err |-> NoErr, e |-> [e EXCEPT !.output_path = PathOfBytes(r.out)],
          stack |-> r.stack, ev |-> r.ev]

set_output_path(e, st) ==
    LET output_path == RelativeTo(e.path, build)
        name == NameOf(output_path)
        newname == IF IsCopy(name) THEN RemoveFirstCopy(name)
                   ELSE RemoveTemplate(name)
    IN  IF name = <<>>
        THEN [err |-> NoErr, e |-> [e EXCEPT !.output_path = output_path],
              stack |-> st.stack, ev |-> st.ev]
        ELSE IF newname = <<>>
        THEN [err |-> InvalidName, e |-> e, stack |-> st.stack, ev |-> st.ev]
        ELSE SetOutputPath(expand(BytesOfPath(WithName(output_path, newname)),
                                  e, st), e)

(***************************************************************************)
(* Writing the output tree.  Each operation returns [err, fs]: the         *)
(* filesystem it leaves, and the message of the OSError raised or NoErr.   *)
(***************************************************************************)
OSError == "OSError"

Put(f, p, entry) == [q \in DOMAIN f \cup {p} |-> IF q = p THEN entry ELSE f[q]]

EntryIn(f, p) == IF p = <<>> THEN DirE ELSE IF p \in DOMAIN f THEN f[p] ELSE NoEntry

\* os.makedirs(p, exist_ok=True)
RECURSIVE MakeDirsFrom(_, _, _)
MakeDirsFrom(f, p, k) ==
    IF k > Len(p) THEN [err |-> NoErr, fs |-> f]
    ELSE LET q == SubSeq(p, 1, k) IN
         CASE EntryIn(f, q).kind = "dir" -> MakeDirsFrom(f, p, k + 1)
           [] EntryIn(f, q).kind = "none" -> MakeDirsFrom(Put(f, q, DirE), p, k + 1)
           [] OTHER -> [err |-> OSError, fs |-> f]

makedirs(f, p) == MakeDirsFrom(f, p, 1)

\* open(p, "wb") and write, or shutil.copyfile to p
WriteFile(f, p, data) ==
    IF p = <<>> \/ EntryIn(f, Front(p)).kind # "dir" \/ EntryIn(f, p).kind = "dir"
    THEN [err |-> OSError, fs |-> f]
    ELSE [err |-> NoErr, fs |-> Put(f, p, FileAt(data, clock))]

(***************************************************************************)
(* Trees.  A task of the work queue is [kind, obj, real_path, only_newer]: *)
(* a call of process_path(obj) or of process_file(real_path, obj,          *)
(* only_newer) not yet awaited.                                            *)
(***************************************************************************)
Stdout == <<<<"-">>>>

PathTask(obj) ==
    [kind |-> "process_path", obj |-> obj, real_path |-> NoPath,
     only_newer |-> FALSE]

FileTask(real_path, obj, only_newer) ==
    [kind |-> "process_file", obj |-> obj, real_path |-> real_path,
     only_newer |-> only_newer]

\* Expand.output_file
output_file(e) == JoinPath(output, e.output_path)

\* The test without the comparison of the times.
check_output_exists(ins, out) == Exists(out)

\* Trees._check_output_newer
check_output_newer(ins, out) ==
    /\ Exists(out)
    /\ \A i \in 1..Len(ins) :
          Raw(Resolve(ins[i])).mtime <= Raw(Resolve(out)).mtime

\* What a task returns: [err, fs, output_files, stdout, puts, ev], the
\* exception raised or NoErr, the filesystem, Trees.output_files and
\* sys.stdout as the task leaves them, the tasks it put on the queue, and the
\* history of its expansions.
TaskResult(err, f, files, out, puts, ev) ==
    [err |-> err, fs |-> f, output_files |-> files, stdout |-> out,
     puts |-> puts, ev |-> ev]

\* The input-only test of process_file.
IsInputOnlyNoCopyTest(name) == IsInput(name)

IsInputOnly(name) == ~IsCopy(name) /\ IsInput(name)

\* The inputs that update mode compares with the output: [err, inputs].
\* s is what check_expand.set_output_path returned.
IncludeInputs(s, real_path) ==
    IF s.err # NoErr THEN Raise(s.err, StateOf(s))
    ELSE include(real_path, s.e, StateOf(s))

UpdateInputs(real_path, obj) ==
    IF IsCopy(NameOf(real_path)) \/ ~IsTemplate(NameOf(real_path))
    THEN Ok(<<>>, <<real_path>>, NewState)
    ELSE IncludeInputs(set_output_path(NewExpand("Macros", real_path, obj),
                                       NewState),
                       real_path)

\* The task's result once the output is written, w being what the write
\* returned.
Written(w, files, out, ev) == TaskResult(w.err, w.fs, files, out, <<>>, ev)

\* The write of what a template expanded to, r being what include returned
\* and f the filesystem that makedirs left.
WriteExpanded(r, f, e, files) ==
    IF r.err # NoErr THEN TaskResult(r.err, f, files, stdout, <<>>, r.ev)
    ELSE IF output = Stdout
    THEN TaskResult(NoErr, f, files, stdout \o r.out, <<>>, r.ev)
    ELSE Written(WriteFile(f, output_file(e), r.out), files, stdout, r.ev)

\* The end of process_file once makedirs has returned d: copy, or expand
\* and write.
WriteIn(d, real_path, obj, e, files, st) ==
    IF d.err # NoErr THEN TaskResult(d.err, d.fs, files, stdout, <<>>, st.ev)
    ELSE IF ~IsCopy(NameOf(obj)) /\ IsTemplate(NameOf(obj))
    THEN WriteExpanded(include(real_path, e, st), d.fs, e, files)
    ELSE IF output = Stdout
    THEN TaskResult(NoErr, d.fs, files, stdout \o ReadBytes(real_path), <<>>,
                    st.ev)
    ELSE Written(WriteFile(d.fs, output_file(e), ReadBytes(real_path)), files,
                 stdout, st.ev)

\* Update mode that takes every output to be out of date.
UpToDateNever(u, out) == FALSE

\* Whether update mode leaves the output as it is, u being the inputs found.
UpToDate(u, out) == u.err = NoErr /\ check_output_newer(u.inputs, out)

\* process_file from output_files.add on, u being the inputs that update
\* mode found (none when only_newer is false).
UpdateOutput(u, only_newer, real_path, obj, e, files, st) ==
    IF u.err # NoErr THEN TaskResult(u.err, fs, files, stdout, <<>>, st.ev)
    ELSE IF only_newer /\ UpToDate(u, output_file(e))
    THEN TaskResult(NoErr, fs, files, stdout, <<>>, st.ev)
    ELSE WriteIn(makedirs(fs, Parent(output_file(e))), real_path, obj, e,
                 files, st)

\* process_file once set_output_path has returned s.
ProcessFileAt(s, real_path, obj, only_newer) ==
    IF s.err # NoErr
    THEN TaskResult(s.err, fs, trees.output_files, stdout, <<>>, s.ev)
    ELSE IF IsInputOnly(NameOf(obj))
    THEN TaskResult(NoErr, fs, trees.output_files, stdout, <<>>, s.ev)
    ELSE UpdateOutput(IF only_newer THEN UpdateInputs(real_path, obj)
                      ELSE Ok(<<>>, <<>>, NewState),
                      only_newer, real_path, obj, s.e,
                      trees.output_files \cup {output_file(s.e)}, StateOf(s))

\* Trees.process_file
process_file(real_path, obj, only_newer) ==
    ProcessFileAt(set_output_path(NewExpand("RunMacros", real_path, obj),
                                  NewState),
                  real_path, obj, only_newer)

NoMatch == "matches no path in the inputs"
MultipleToStdout == "cannot output multiple files to stdout ('-')"
NotFileOrDirectory == "is not a file or directory"

\* The children that process_path puts on the queue.
IsProcessedAll(child) == TRUE

IsProcessed(child) == child[1] # "." \/ trees.process_hidden

\* The path of the child that process_path puts on the queue.
ChildOf(obj, child) == Append(obj, child)

\* process_path that puts every child on the queue twice.
PutChildrenTwice(d, s, obj, order) ==
    IF d.err # NoErr
    THEN TaskResult(d.err, d.fs, trees.output_files, stdout, <<>>, s.ev)
    ELSE TaskResult(NoErr, d.fs, trees.output_files, stdout,
                    [i \in 1..(2 * Len(SelectSeq(order, IsProcessed))) |->
                        PathTask(ChildOf(obj,
                                         SelectSeq(order, IsProcessed)[(i + 1) \div 2]))],
                    s.ev)

\* process_path for a directory once os.makedirs has returned d: the
\* children are put on the queue.
PutChildren(d, s, obj, order) ==
    IF d.err # NoErr
    THEN TaskResult(d.err, d.fs, trees.output_files, stdout, <<>>, s.ev)
    ELSE TaskResult(NoErr, d.fs, trees.output_files, stdout,
                    [i \in 1..Len(SelectSeq(order, IsProcessed)) |->
                        PathTask(ChildOf(obj, SelectSeq(order, IsProcessed)[i]))],
                    s.ev)

\* process_path that puts the children without creating the directory.
EnterDirectoryNoMakedirs(s, obj, order) ==
    IF s.err # NoErr
    THEN TaskResult(s.err, fs, trees.output_files, stdout, <<>>, s.ev)
    ELSE PutChildren([err |-> NoErr, fs |-> fs], s, obj, order)

\* process_path for a directory once set_output_path has returned s.
EnterDirectory(s, obj, order) ==
    IF s.err # NoErr
    THEN TaskResult(s.err, fs, trees.output_files, stdout, <<>>, s.ev)
    ELSE PutChildren(makedirs(fs, output_file(s.e)), s, obj, order)

\* process_path once find_object has returned real_obj.
ProcessPathAt(real_obj, obj, order) ==
    IF real_obj = NoPath
    THEN TaskResult(NoMatch, fs, trees.output_files, stdout, <<>>, <<>>)
    ELSE IF IsDir(real_obj)
    THEN IF output = Stdout
         THEN TaskResult(MultipleToStdout, fs, trees.output_files, stdout,
                         <<>>, <<>>)
         ELSE EnterDirectory(set_output_path(NewExpand("RunMacros", NoPath, obj),
                                             NewState),
                             obj, order)
    ELSE IF IsFile(real_obj)
    THEN TaskResult(NoErr, fs, trees.output_files, stdout,
                    <<FileTask(real_obj, obj, trees.update_newer)>>, <<>>)
    ELSE TaskResult(NotFileOrDirectory, fs, trees.output_files, stdout, <<>>, <<>>)

\* Trees.process_path; order is the order of the list that scandir returns.
process_path(obj, order) == ProcessPathAt(find_object(obj), obj, order)

\* The orders in which list(names) may hold the names of scandir(obj).
Orders(names) ==
    {o \in [1..Cardinality(names) -> names] :
        \A i, j \in 1..Cardinality(names) : i # j => o[i] # o[j]}

\* The task as the worker awaits it.
RunTask(task, order) ==
    IF task.kind = "process_path" THEN process_path(task.obj, order)
    ELSE process_file(task.real_path, task.obj, task.only_newer)

ScanOrders(task) ==
    IF task.kind = "process_path" THEN Orders(scandir(task.obj)) ELSE {<<>>}

(***************************************************************************)
(* Trees.process and worker.  A task runs from its start to its end in one *)
(* step.                                                                   *)
(***************************************************************************)
NewTrees(ins, out, bld, hidden, delete, update) ==
    [inputs |-> ins, output |-> out, build |-> bld, process_hidden |-> hidden,
     delete_ungenerated |-> delete, update_newer |-> update,
     extant_files |-> {}, output_files |-> {}]

Worker == 1..NWorkers

\* The state after the first process_path has returned r.
Started(r) ==
    /\ fs' = r.fs
    /\ awaited' = Append(awaited, PathTask(build))
    /\ IF r.err # NoErr
       THEN /\ pc' = "raised"
            /\ error' = r.err
            /\ UNCHANGED <<work_queue, unfinished, workers>>
       ELSE /\ pc' = "join"
            /\ work_queue' = r.puts
            /\ unfinished' = Len(r.puts)
            /\ workers' = [w \in Worker |-> [state |-> "running", err |-> NoErr]]
            /\ UNCHANGED error

\* await self.process_path(self.build), then the worker tasks are created.
ProcessStart ==
    /\ pc = "start"
    /\ \E order \in Orders(scandir(build)) : Started(process_path(build, order))
    /\ UNCHANGED <<programs, clock, trees, stdout, text, call>>

\* The state after worker w has awaited the task at the head of the queue
\* and the task has returned r.
Awaited(w, r) ==
    /\ fs' = r.fs
    /\ trees' = [trees EXCEPT !.output_files = r.output_files]
    /\ stdout' = r.stdout
    /\ work_queue' = Tail(work_queue) \o r.puts
    /\ unfinished' = unfinished + Len(r.puts) - 1
    /\ awaited' = Append(awaited, Head(work_queue))
    /\ workers' = IF r.err = NoErr THEN workers
                  ELSE [workers EXCEPT ![w] =
                           [state |-> "failed", err |-> r.err,
                            task |-> Head(work_queue), ev |-> r.ev]]

\* One turn of the loop of worker: queue.get(), await process, task_done().
\* A task that raises ends its worker.
WorkerStep(w) ==
    /\ pc = "join"
    /\ workers[w].state = "running"
    /\ work_queue # <<>>
    /\ \E order \in ScanOrders(Head(work_queue)) :
         Awaited(w, RunTask(Head(work_queue), order))
    /\ UNCHANGED <<programs, clock, pc, error, text, call>>

FailedWorkers == {w \in Worker : workers[w].state = "failed"}

\* await self.work_queue.join() returns, the queue is shut down and gather
\* returns or raises the exception of the first worker that failed.
ProcessJoin ==
    /\ pc = "join"
    /\ unfinished = 0
    /\ workers' = [w \in Worker |->
                      IF workers[w].state = "running"
                      THEN [state |-> "returned", err |-> NoErr] ELSE workers[w]]
    /\ IF FailedWorkers = {}
       THEN pc' = "done" /\ UNCHANGED error
       ELSE /\ pc' = "raised"
            /\ error' = workers[CHOOSE w \in FailedWorkers :
                                   \A v \in FailedWorkers : w <= v].err
    /\ UNCHANGED <<fs, programs, clock, trees, work_queue, unfinished, stdout,
                   awaited, text, call>>

(***************************************************************************)
(* Trees.find_existing_files and Trees.delete_ungenerated_files, which     *)
(* Trees.__del__ calls.                                                    *)
(***************************************************************************)
\* The directories that os.walk(out) visits in f.
Walked(f, out) ==
    {p \in DOMAIN f \cup {out} :
        /\ IsPrefix(out, p)
        /\ \A k \in Len(out)..Len(p) : EntryIn(f, SubSeq(p, 1, k)).kind = "dir"}

\* filenames of os.walk for the directory p: the entries that are not
\* directories.
WalkFiles(f, p) ==
    {q \in DOMAIN f : q # <<>> /\ Front(q) = p /\ f[q].kind \in {"file", "link"}}

\* Trees.find_existing_files: the keys of extant_files.
find_existing_files(f, out) == UNION {WalkFiles(f, p) : p \in Walked(f, out)}

\* Trees.__init__: the output tree is walked when deleting or updating.
NewTreesOn(f, ins, out, bld, hidden, delete, update) ==
    [inputs |-> ins, output |-> out, build |-> bld, process_hidden |-> hidden,
     delete_ungenerated |-> delete, update_newer |-> update,
     extant_files |-> IF delete \/ update THEN find_existing_files(f, out)
                      ELSE {},
     output_files |-> {}]

\* Every file of the snapshot, generated or not.
UngeneratedAll(extant, files) == extant

\* set(self.extant_files) - self.output_files
Ungenerated(extant, files) == extant \ files

\* os.remove of each path of paths
RemoveAll(f, paths) == [q \in DOMAIN f |-> IF q \in paths THEN NoEntry ELSE f[q]]

\* os.rmdir(p) succeeds when p holds nothing.
IsEmptyDir(f, p) ==
    \A q \in DOMAIN f : (q # <<>> /\ Front(q) = p) => f[q].kind = "none"

\* The directories of the walk at one depth for which os.rmdir is called and
\* succeeds.
RemovableAt(f, out, depth) ==
    {p \in Walked(f, out) :
        Len(p) = depth /\ WalkFiles(f, p) = {} /\ IsEmptyDir(f, p)}

\* os.walk(self.output, topdown=False): the deepest directories come first.
RECURSIVE RemoveEmptyFrom(_, _, _)
RemoveEmptyFrom(f, out, depth) ==
    IF depth < Len(out) THEN f
    ELSE RemoveEmptyFrom(RemoveAll(f, RemovableAt(f, out, depth)), out,
                         depth - 1)

RemoveEmptyNever(f, out) == f

RemoveEmpty(f, out) ==
    RemoveEmptyFrom(f, out, Len(out) + Cardinality(DOMAIN f))

\* The sets of paths that the first loop may have removed when it ends: all
\* of them, or, when os.remove raises for a path that is no longer a file,
\* any of the others.
RemovedSets(f, paths) ==
    IF \A p \in paths : EntryIn(f, p).kind \in {"file", "link"} THEN {paths}
    ELSE SUBSET {p \in paths : EntryIn(f, p).kind \in {"file", "link"}}

\* Trees.delete_ungenerated_files, removed being what the first loop removed;
\* an exception of os.remove ends the method.
delete_ungenerated_files(f, removed) ==
    IF removed = Ungenerated(trees.extant_files, trees.output_files)
    THEN RemoveEmpty(RemoveAll(f, removed), output)
    ELSE RemoveAll(f, removed)

\* Trees.__del__, when the Trees object is released after process has
\* returned or raised.
Destroy ==
    /\ pc \in {"done", "raised"}
    /\ trees.delete_ungenerated
    /\ \E removed \in RemovedSets(fs, Ungenerated(trees.extant_files,
                                                  trees.output_files)) :
          fs' = delete_ungenerated_files(fs, removed)
    /\ trees' = [trees EXCEPT !.delete_ungenerated = FALSE]
    /\ pc' = "released"
    /\ UNCHANGED <<programs, clock, work_queue, unfinished, workers, error,
                   stdout, awaited, text, call>>

(***************************************************************************)
(* The input trees of the model: two roots A and B, each with a directory  *)
(* d holding x and y, and a file z; E is a directory outside the roots and *)
(* O the output directory.                                                 *)
(***************************************************************************)
nA == <<"A">>
nB == <<"B">>
nE == <<"E">>
nO == <<"O">>
nd == <<"d">>
nx == <<"x">>
ny == <<"y">>
nz == <<"z">>
no == <<"o">>

Roots == {<<nA>>, <<nB>>}
TwoRoots == <<<<nA>>, <<nB>>>>

\* The bytes of the file at root / name: the letters of the root and the name.
Mark(root, name) == root[1] \o name

\* What each place of a root may hold.
OptD == {"none", "dir", "file"}
OptX == {"none", "file"}
OptY == {"none", "file", "inside", "outside"}
OptZ == {"none", "file"}

RootShapes ==
    {c \in [d : OptD, x : OptX, y : OptY, z : OptZ] :
        c.d # "dir" => (c.x = "none" /\ c.y = "none")}

OtherRoot(root) == IF root = <<nA>> THEN <<nB>> ELSE <<nA>>

EntryFor(root, kind, name) ==
    CASE kind = "file" -> FileE(Mark(root, name))
      [] kind = "dir" -> DirE
      [] kind = "inside" -> LinkE(root \o <<nz>>)
      [] kind = "across" -> LinkE(OtherRoot(root) \o <<nz>>)
      [] kind = "outside" -> LinkE(<<nE, no>>)
      [] OTHER -> NoEntry

\* The filesystem in which each root has the shape that shapes gives it.
TreeFs(shapes) ==
    [p \in {<<nE>>, <<nE, no>>}
           \cup UNION {{r, r \o <<nd>>, r \o <<nd, nx>>, r \o <<nd, ny>>, r \o <<nz>>} :
                          r \in Roots} |->
        IF p = <<nE>> THEN DirE
        ELSE IF p = <<nE, no>> THEN FileE(Mark(<<nE>>, no))
        ELSE LET r == <<p[1]>> IN
             CASE p = r -> DirE
               [] p = r \o <<nd>> -> EntryFor(r, shapes[r].d, nd)
               [] p = r \o <<nd, nx>> -> EntryFor(r, shapes[r].x, nx)
               [] p = r \o <<nd, ny>> -> EntryFor(r, shapes[r].y, ny)
               [] p = r \o <<nz>> -> EntryFor(r, shapes[r].z, nz)]

\* The overlay paths that the model looks up.
Objs == {<<>>, <<nd>>, <<nd, nx>>, <<nd, ny>>, <<nz>>}

NoCall == [op |-> "none"]

IdleRun ==
    /\ work_queue = <<>>
    /\ unfinished = 0
    /\ workers = [w \in Worker |-> [state |-> "new", err |-> NoErr]]
    /\ error = NoErr
    /\ stdout = <<>>
    /\ awaited = <<>>

(***************************************************************************)
(* Spec: a run of Trees.process over the overlay of the two roots.         *)
(***************************************************************************)
Init ==
    /\ \E shapes \in [Roots -> RootShapes] : fs = TreeFs(shapes)
    /\ programs = <<>>
    /\ clock = 1
    /\ trees = NewTrees(TwoRoots, <<nO>>, <<>>, FALSE, FALSE, FALSE)
    /\ pc = "start"
    /\ IdleRun
    /\ text = <<>>
    /\ call = NoCall

Next ==
    \/ ProcessStart
    \/ \E w \in Worker : WorkerStep(w)
    \/ ProcessJoin

Spec == Init /\ [][Next]_vars

(***************************************************************************)
(* SpecOverlay: find_object and scandir applied to every overlay path of   *)
(* every filesystem of the model.                                          *)
(***************************************************************************)
InitOverlay ==
    /\ \E shapes \in [Roots -> RootShapes] : fs = TreeFs(shapes)
    /\ programs = <<>>
    /\ clock = 1
    /\ trees = NewTrees(TwoRoots, <<nO>>, <<>>, FALSE, FALSE, FALSE)
    /\ pc = "idle"
    /\ IdleRun
    /\ text = <<>>
    /\ call = NoCall

FindObject(obj) ==
    /\ call.op = "none"
    /\ call' = [op |-> "find_object", obj |-> obj, res |-> find_object(obj)]
    /\ UNCHANGED <<fs, programs, clock, trees, work_queue, unfinished, workers,
                   pc, error, stdout, awaited, text>>

Scandir(obj) ==
    /\ call.op = "none"
    /\ call' = [op |-> "scandir", obj |-> obj, res |-> scandir(obj)]
    /\ UNCHANGED <<fs, programs, clock, trees, work_queue, unfinished, workers,
                   pc, error, stdout, awaited, text>>

NextOverlay ==
    \/ \E obj \in Objs : FindObject(obj)
    \/ \E obj \in Objs : Scandir(obj)

SpecOverlay == InitOverlay /\ [][NextOverlay]_vars

(***************************************************************************)
(* SpecLinks: find_object applied to d/y and to z in every filesystem in   *)
(* which y is also allowed to be a symbolic link to the z of the other     *)
(* root.                                                                   *)
(***************************************************************************)
LinkShapes ==
    {c \in [d : OptD, x : OptX, y : OptY \cup {"across"}, z : OptZ] :
        c.d # "dir" => (c.x = "none" /\ c.y = "none")}

InitLinks ==
    /\ \E shapes \in [Roots -> LinkShapes] : fs = TreeFs(shapes)
    /\ programs = <<>>
    /\ clock = 1
    /\ trees = NewTrees(TwoRoots, <<nO>>, <<>>, FALSE, FALSE, FALSE)
    /\ pc = "idle"
    /\ IdleRun
    /\ text = <<>>
    /\ call = NoCall

NextLinks == \E obj \in {<<nd, ny>>, <<nz>>} : FindObject(obj)

SpecLinks == InitLinks /\ [][NextLinks]_vars

(***************************************************************************)
(* SpecMerged: a run of Trees.process during which scandir is also applied *)
(* once to an overlay path.                                                *)
(***************************************************************************)
NextMerged ==
    \/ Next
    \/ \E obj \in Objs : Scandir(obj)

SpecMerged == Init /\ [][NextMerged]_vars

(***************************************************************************)
(* SpecParse: parse_arguments applied at every opening bracket of every    *)
(* text of at most MaxTextLen bytes.                                       *)
(***************************************************************************)
ParseAlphabet == {"(", ")", "{", "}", ",", BS, "a"}

InitParse ==
    /\ fs = <<>>
    /\ programs = <<>>
    /\ clock = 1
    /\ trees = NewTrees(TwoRoots, <<nO>>, <<>>, FALSE, FALSE, FALSE)
    /\ pc = "idle"
    /\ IdleRun
    /\ text \in SeqsUpTo(ParseAlphabet, MaxTextLen)
    /\ call = NoCall

ParseArguments(arg_start) ==
    /\ call.op = "none"
    /\ text[arg_start] \in Openers
    /\ call' = [op |-> "parse_arguments", arg_start |-> arg_start,
                closing |-> ClosingFor(text[arg_start]),
                res |-> parse_arguments(text, arg_start, ClosingFor(text[arg_start]))]
    /\ UNCHANGED <<fs, programs, clock, trees, work_queue, unfinished, workers,
                   pc, error, stdout, awaited, text>>

NextParse == \E arg_start \in 1..Len(text) : ParseArguments(arg_start)

SpecParse == InitParse /\ [][NextParse]_vars

(***************************************************************************)
(* SpecExpand: the template d/t of root A is expanded.  Root A holds the   *)
(* files f and g and the directory d, which may hold a second f; bin/p is  *)
(* a program on the system search path.  Expand.expand, Expand.do_macro    *)
(* and Expand.find_on_path are applied to texts, macro calls and file      *)
(* names made of these.                                                    *)
(***************************************************************************)
nf == <<"f">>
ng == <<"g">>
np == <<"p">>
nt == <<"t">>

mPath == <<"p", "a", "t", "h">>
mOutputpath == <<"o", "u", "t", "p", "u", "t", "p", "a", "t", "h">>
mExpand == <<"e", "x", "p", "a", "n", "d">>
mPaste == <<"p", "a", "s", "t", "e">>
mInclude == <<"i", "n", "c", "l", "u", "d", "e">>
mRun == <<"r", "u", "n">>

\* The text of a macro call: a and i are the bytes between the brackets, or
\* NoBytes for no brackets.
CallText(name, a, i) ==
    <<"$">> \o name
    \o (IF a = NoBytes THEN <<>> ELSE <<"(">> \o a \o <<")">>)
    \o (IF i = NoBytes THEN <<>> ELSE <<"{">> \o i \o <<"}">>)

\* What the files f and g of root A may hold.
FileTexts ==
    {<<"a">>, <<"a", NL>>, <<"a", NL, NL>>, <<BS, ",">>,
     <<BS>> \o CallText(mPath, NoBytes, NoBytes),
     CallText(mPath, NoBytes, NoBytes),
     CallText(mInclude, nf, NoBytes),
     CallText(mInclude, ng, NoBytes)}

OtherTexts ==
    {<<"b">>, <<"b", NL>>, CallText(mInclude, nf, NoBytes),
     CallText(mInclude, ng, NoBytes)}

\* What d/f may hold, <<>> standing for no file.
InnerTexts == {<<>>, <<"c">>, CallText(mInclude, ng, NoBytes)}

ExpandFs(cf, cg, cdf) ==
    [p \in {<<nA>>, <<nB>>, <<nA, nf>>, <<nA, ng>>, <<nA, nd>>, <<nA, nd, nf>>,
            BinDir, BinDir \o <<np>>} |->
        CASE p = <<nA, nf>> -> FileE(cf)
          [] p = <<nA, ng>> -> FileE(cg)
          [] p = <<nA, nd, nf>> -> IF cdf = <<>> THEN NoEntry ELSE FileE(cdf)
          [] p = BinDir \o <<np>> -> FileE(<<>>)
          [] OTHER -> DirE]

\* The Expand object of the template A/d/t, its output path set.
TemplateExpand ==
    [NewExpand("RunMacros", <<nA, nd, nt>>, <<nd, nt>>)
     EXCEPT !.output_path = <<nd, nt>>]

InitExpand ==
    /\ \E cf \in FileTexts, cg \in OtherTexts, cdf \in InnerTexts :
          fs = ExpandFs(cf, cg, cdf)
    /\ programs = (BinDir \o <<np>>) :> [stdout |-> <<"o">>, returncode |-> 0]
    /\ clock = 1
    /\ trees = NewTrees(TwoRoots, <<nO>>, <<>>, FALSE, FALSE, FALSE)
    /\ pc = "idle"
    /\ IdleRun
    /\ text = <<>>
    /\ call = NoCall

\* Texts of several calls: two runs, and a run between two pastes.
TwoRuns == CallText(mRun, np, NoBytes) \o CallText(mRun, np, NoBytes)

ThreeCalls ==
    CallText(mPaste, nf, NoBytes) \o CallText(mRun, np, NoBytes)
    \o CallText(mPaste, ng, NoBytes)

\* Two arguments that each hold a call.
TwoPastes == <<CallText(mPaste, nf, NoBytes), CallText(mPaste, ng, NoBytes)>>

\* The texts expanded.
Texts ==
    {TwoRuns, ThreeCalls,
     CallText(mInclude, nf, NoBytes),
     CallText(mInclude, ng, NoBytes),
     CallText(mPaste, nf, NoBytes),
     <<"x">> \o CallText(mRun, np, NoBytes) \o <<"y">>,
     CallText(mExpand, NoBytes, CallText(mInclude, nf, NoBytes)),
     CallText(mPath, CallText(mInclude, nf, NoBytes), NoBytes),
     CallText(<<"n", "o">>, NoBytes, NoBytes)}

\* The arguments and the inputs of the macro calls made.
ArgLists ==
    {NoArgs, <<nf>>, <<nf, ng>>, <<np>>, TwoPastes,
     <<CallText(mInclude, nf, NoBytes)>>, <<CallText(mRun, np, NoBytes)>>}

Inputs ==
    {NoBytes, CallText(mPaste, nf, NoBytes), CallText(mRun, np, NoBytes)}
    \cup FileTexts

\* The bytes between the brackets of the escaped calls.
BalancedTexts ==
    {NoBytes, <<>>, <<"f">>, <<"a", ",", "b">>, <<BS, ",">>, <<"(", "a", ")">>,
     <<"{", ",", "}">>, CallText(mRun, np, NoBytes),
     CallText(mInclude, nf, NoBytes)}

EscapedNames == {mPath, mInclude, <<"n", "o">>}

\* The stacks and the file names find_on_path is applied to.
Stacks == SeqsUpTo({<<nA, nf>>, <<nA, ng>>, <<nA, nd, nf>>}, 2)

FileNames == {<<nf>>, <<ng>>, <<nd, nf>>, <<DotDot, nf>>}

ExpandText(t) ==
    /\ call.op = "none"
    /\ text' = t
    /\ call' = [op |-> "expand", res |-> expand(t, TemplateExpand, NewState)]
    /\ UNCHANGED <<fs, programs, clock, trees, work_queue, unfinished, workers,
                   pc, error, stdout, awaited>>

DoMacro(name, args, input) ==
    /\ call.op = "none"
    /\ call' = [op |-> "do_macro", name |-> name, args |-> args, input |-> input,
                res |-> do_macro(name, args, input, TemplateExpand, NewState)]
    /\ UNCHANGED <<fs, programs, clock, trees, work_queue, unfinished, workers,
                   pc, error, stdout, awaited, text>>

ExpandEscaped(name, a, i) ==
    /\ call.op = "none"
    /\ text' = <<BS>> \o CallText(name, a, i)
    /\ call' = [op |-> "escaped", name |-> name, a |-> a, i |-> i,
                res |-> expand(<<BS>> \o CallText(name, a, i), TemplateExpand,
                               NewState)]
    /\ UNCHANGED <<fs, programs, clock, trees, work_queue, unfinished, workers,
                   pc, error, stdout, awaited>>

FindOnPath(file, stack) ==
    /\ call.op = "none"
    /\ call' = [op |-> "find_on_path", file |-> file, stack |-> stack,
                res |-> find_on_path(Parent(TemplateExpand.path), file, stack)]
    /\ UNCHANGED <<fs, programs, clock, trees, work_queue, unfinished, workers,
                   pc, error, stdout, awaited, text>>

\* The names of the files of d whose output path is computed.
OutputNames ==
    {nt, TemplateSuffix, nt \o TemplateSuffix, nt \o CopySuffix,
     CallText(mOutputpath, NoBytes, NoBytes),
     <<"x">> \o CallText(mOutputpath, NoBytes, NoBytes) \o TemplateSuffix,
     CallText(mExpand, NoBytes, CallText(mOutputpath, NoBytes, NoBytes)),
     CallText(mPath, NoBytes, NoBytes) \o TemplateSuffix,
     CallText(mInclude, nf, NoBytes)}

\* What $outputpath gives once set_output_path has returned s.
OutputpathAfter(s) ==
    IF s.err # NoErr THEN Raise(s.err, StateOf(s))
    ELSE CallMacro(mOutputpath, NoArgs, NoBytes, s.e, NewState)

\* An Expand is created for the file d/name, $outputpath is evaluated,
\* set_output_path is awaited and $outputpath is evaluated again.
OutputPathOf(name) ==
    /\ call.op = "none"
    /\ call' = [op |-> "set_output_path", name |-> name,
                before |-> CallMacro(mOutputpath, NoArgs, NoBytes,
                                     NewExpand("RunMacros", <<nA, nd, name>>,
                                               <<nd, name>>),
                                     NewState),
                res |-> set_output_path(NewExpand("RunMacros", <<nA, nd, name>>,
                                                  <<nd, name>>),
                                        NewState),
                after |-> OutputpathAfter(
                              set_output_path(NewExpand("RunMacros",
                                                        <<nA, nd, name>>,
                                                        <<nd, name>>),
                                              NewState))]
    /\ UNCHANGED <<fs, programs, clock, trees, work_queue, unfinished, workers,
                   pc, error, stdout, awaited, text>>

\* Expand.include is awaited on a file of root A, the stack being empty.
IncludePath(file) ==
    /\ call.op = "none"
    /\ IsFile(file)
    /\ call' = [op |-> "include", file |-> file,
                res |-> include(file, TemplateExpand, NewState)]
    /\ UNCHANGED <<fs, programs, clock, trees, work_queue, unfinished, workers,
                   pc, error, stdout, awaited, text>>

NextExpand ==
    \/ \E name \in OutputNames : OutputPathOf(name)
    \/ \E file \in {<<nA, nf>>, <<nA, ng>>, <<nA, nd, nf>>} : IncludePath(file)
    \/ \E t \in Texts : ExpandText(t)
    \/ \E name \in MacroNames, args \in ArgLists, input \in Inputs :
          DoMacro(name, args, input)
    \/ \E name \in EscapedNames, a \in BalancedTexts, i \in BalancedTexts :
          ExpandEscaped(name, a, i)
    \/ \E file \in FileNames, stack \in Stacks : FindOnPath(file, stack)

SpecExpand == InitExpand /\ [][NextExpand]_vars

(***************************************************************************)
(* SpecProgram: $run is called from the template d/t of root A.  A program *)
(* named p may be in d, in the root and in the directory of the system     *)
(* search path; no program is named q.                                     *)
(***************************************************************************)
nq == <<"q">>

ProgramFs(inner, outer, system) ==
    [p \in {<<nA>>, <<nB>>, <<nA, nd>>, <<nA, nd, np>>, <<nA, np>>,
            BinDir, BinDir \o <<np>>} |->
        CASE p = <<nA, nd, np>> -> IF inner THEN FileE(<<"i">>) ELSE NoEntry
          [] p = <<nA, np>> -> IF outer THEN FileE(<<"o">>) ELSE NoEntry
          [] p = BinDir \o <<np>> -> IF system THEN FileE(<<"s">>) ELSE NoEntry
          [] OTHER -> DirE]

\* Each program writes its own path and exits with the same code.
ProgramTable(rc) ==
    [p \in {<<nA, nd, np>>, <<nA, np>>, BinDir \o <<np>>} |->
        [stdout |-> BytesOfPath(p), returncode |-> rc]]

InitProgram ==
    /\ \E inner \in BOOLEAN, outer \in BOOLEAN, system \in BOOLEAN :
          fs = ProgramFs(inner, outer, system)
    /\ \E rc \in 0..1 : programs = ProgramTable(rc)
    /\ clock = 1
    /\ trees = NewTrees(TwoRoots, <<nO>>, <<>>, FALSE, FALSE, FALSE)
    /\ pc = "idle"
    /\ IdleRun
    /\ text = <<>>
    /\ call = NoCall

\* The names given to $run, and the include stacks it is called under.
ProgramNames == {np, nq, <<"d", "/", "p">>}

ProgramStacks == {<<>>, <<<<nA, nd, np>>>>, <<<<nA, np>>>>}

\* do_macro(b"run", [prog], input) of the macros class cls.
RunProgram(cls, prog, input, stack) ==
    /\ call.op = "none"
    /\ call' = [op |-> "run", cls |-> cls, prog |-> prog, input |-> input,
                stack |-> stack,
                res |-> do_macro(mRun, <<prog>>, input,
                                 [TemplateExpand EXCEPT !.cls = cls],
                                 [stack |-> stack, ev |-> <<>>])]
    /\ UNCHANGED <<fs, programs, clock, trees, work_queue, unfinished, workers,
                   pc, error, stdout, awaited, text>>

\* The template text x$run(prog)y is expanded: the program is started and
\* awaited.
ExpandRun(prog) ==
    /\ call.op = "none"
    /\ text' = <<"x">> \o CallText(mRun, prog, NoBytes) \o <<"y">>
    /\ call' = [op |-> "expand_run", prog |-> prog, stack |-> <<>>,
                res |-> expand(<<"x">> \o CallText(mRun, prog, NoBytes)
                                  \o <<"y">>,
                               TemplateExpand, NewState)]
    /\ UNCHANGED <<fs, programs, clock, trees, work_queue, unfinished, workers,
                   pc, error, stdout, awaited>>

NextProgram ==
    \/ \E cls \in {"Macros", "RunMacros"}, prog \in ProgramNames,
          input \in {NoBytes, <<"a">>}, stack \in ProgramStacks :
          RunProgram(cls, prog, input, stack)
    \/ \E prog \in ProgramNames : ExpandRun(prog)

SpecProgram == InitProgram /\ [][NextProgram]_vars

(***************************************************************************)
(* SpecRun: a run of Trees.process over the subtree d of root A, with      *)
(* update and delete on or off, then the release of the Trees object.  d   *)
(* holds the templates t.nancy and v.nancy and the plain file u; the root  *)
(* holds the fragment i.in.  The programs p, q and r of the system search  *)
(* path exit with 0, 1 and 2.  The output tree O is empty, or holds t, v   *)
(* and u from an earlier run ("built"), u being older than its input in    *)
(* "aged", with in "stale" also a file s, an empty directory e and a file  *)
(* s in the directory n/m.  Inputs are stamped 1 or 3, outputs 2, and this *)
(* run stamps 4.                                                           *)
(***************************************************************************)
nr == <<"r">>
ns == <<"s">>
nu == <<"u">>
nv == <<"v">>
ne == <<"e">>
nn == <<"n">>
nm == <<"m">>
tn == nt \o TemplateSuffix
vn == nv \o TemplateSuffix
iin == <<"i">> \o InputSuffix

TemplateTexts ==
    {CallText(mInclude, iin, NoBytes), CallText(mPaste, iin, NoBytes),
     <<"x">> \o CallText(mRun, np, NoBytes), CallText(mRun, nq, NoBytes),
     CallText(mRun, nr, NoBytes)}

SecondTexts ==
    {<<"b">>, CallText(<<"n", "o">>, NoBytes, NoBytes),
     CallText(mRun, nq, NoBytes)}

OutputShapes == {"empty", "built", "aged", "stale"}

Old == <<"o", "l", "d">>

RunFs(ct, cv, mi, mu, shape) ==
    [p \in {<<nA>>, <<nB>>, <<nA, nd>>, <<nA, iin>>, <<nA, nd, tn>>,
            <<nA, nd, vn>>, <<nA, nd, nu>>, BinDir, BinDir \o <<np>>,
            BinDir \o <<nq>>, BinDir \o <<nr>>, <<nO>>, <<nO, nt>>, <<nO, nv>>,
            <<nO, nu>>, <<nO, ns>>, <<nO, ne>>, <<nO, nn>>, <<nO, nn, nm>>,
            <<nO, nn, nm, ns>>} |->
        CASE p = <<nA, iin>> -> FileAt(<<"i">>, mi)
          [] p = <<nA, nd, tn>> -> FileAt(ct, 1)
          [] p = <<nA, nd, vn>> -> FileAt(cv, 1)
          [] p = <<nA, nd, nu>> -> FileAt(<<"u">>, mu)
          [] p \in {BinDir \o <<np>>, BinDir \o <<nq>>, BinDir \o <<nr>>} ->
                FileE(<<>>)
          [] p \in {<<nO, nt>>, <<nO, nv>>} ->
                IF shape = "empty" THEN NoEntry ELSE FileAt(Old, 2)
          [] p = <<nO, nu>> ->
                IF shape = "empty" THEN NoEntry
                ELSE IF shape = "aged" THEN FileAt(Old, 0) ELSE FileAt(Old, 2)
          [] p \in {<<nO, ns>>, <<nO, nn, nm, ns>>} ->
                IF shape = "stale" THEN FileAt(Old, 2) ELSE NoEntry
          [] p \in {<<nO, ne>>, <<nO, nn>>, <<nO, nn, nm>>} ->
                IF shape = "stale" THEN DirE ELSE NoEntry
          [] OTHER -> DirE]

RunPrograms ==
    [p \in {BinDir \o <<np>>, BinDir \o <<nq>>, BinDir \o <<nr>>} |->
        [stdout |-> <<"o">>,
         returncode |-> IF p = BinDir \o <<np>> THEN 0
                        ELSE IF p = BinDir \o <<nq>> THEN 1 ELSE 2]]

InitRun ==
    /\ \E ct \in TemplateTexts, cv \in SecondTexts, mi \in {1, 3}, mu \in {1, 3},
          shape \in OutputShapes :
          fs = RunFs(ct, cv, mi, mu, shape)
    /\ programs = RunPrograms
    /\ clock = 4
    /\ \E delete \in BOOLEAN, update \in BOOLEAN :
          trees = NewTreesOn(fs, TwoRoots, <<nO>>, <<nd>>, FALSE, delete, update)
    /\ pc = "start"
    /\ IdleRun
    /\ text = <<>>
    /\ call = NoCall

NextRun ==
    \/ ProcessStart
    \/ \E w \in Worker : WorkerStep(w)
    \/ ProcessJoin
    \/ Destroy

SpecRun == InitRun /\ [][NextRun]_vars

(***************************************************************************)
(* SpecAbort: the runs of SpecRun into an empty output tree without update *)
(* or delete, in which t.nancy runs p or q and v.nancy holds plain text or *)
(* an unknown macro, so that none, one or two of the three files raise.    *)
(***************************************************************************)
InitAbort ==
    /\ \E ct \in {<<"x">> \o CallText(mRun, np, NoBytes),
                   CallText(mRun, nq, NoBytes)},
          cv \in {<<"b">>, CallText(<<"n", "o">>, NoBytes, NoBytes)} :
          fs = RunFs(ct, cv, 1, 1, "empty")
    /\ programs = RunPrograms
    /\ clock = 4
    /\ trees = NewTreesOn(fs, TwoRoots, <<nO>>, <<nd>>, FALSE, FALSE, FALSE)
    /\ pc = "start"
    /\ IdleRun
    /\ text = <<>>
    /\ call = NoCall

NextAbort ==
    \/ ProcessStart
    \/ \E w \in Worker : WorkerStep(w)
    \/ ProcessJoin

\* What the event loop can run, as the schedule sees it: process up to its
\* first await, a worker that has not ended when the queue holds a task, and
\* process once join can return.  Every step of NextAbort is a turn.
Turn ==
    \/ /\ pc = "start"
       /\ pc' \in {"join", "raised"}
       /\ awaited' = Append(awaited, PathTask(build))
    \/ /\ pc = "join"
       /\ work_queue # <<>>
       /\ \E w \in Worker : workers[w].state = "running"
       /\ pc' = pc
       /\ awaited' = Append(awaited, Head(work_queue))
    \/ /\ pc = "join"
       /\ unfinished = 0
       /\ pc' \in {"done", "raised"}
       /\ awaited' = awaited

\* The event loop runs whatever can run.
SpecAbort == InitAbort /\ [][NextAbort]_vars /\ WF_<<pc, awaited>>(Turn)

(***************************************************************************)
(* SpecUpdate: a run of Trees.process in update mode over the subtree d of *)
(* SpecRun, the output tree holding t, v and u from an earlier run.  The   *)
(* templates and the fragment are stamped 2, the programs 4, the outputs   *)
(* 5, and this run stamps 7; then nothing, or one input or program is      *)
(* touched (stamped 6), or one output is made older: stamped 3, older than *)
(* the programs only, or stamped 1, older than every input.                *)
(***************************************************************************)
Touches ==
    {<<>>, <<nA, iin>>, <<nA, nd, tn>>, <<nA, nd, vn>>, <<nA, nd, nu>>,
     BinDir \o <<np>>, BinDir \o <<nq>>}

Ages == {<<>>, <<nO, nt>>, <<nO, nv>>, <<nO, nu>>}

UpdateFs(ct, cv, touched, aged, age) ==
    [p \in {<<nA>>, <<nB>>, <<nA, nd>>, <<nA, iin>>, <<nA, nd, tn>>,
            <<nA, nd, vn>>, <<nA, nd, nu>>, BinDir, BinDir \o <<np>>,
            BinDir \o <<nq>>, BinDir \o <<nr>>, <<nO>>, <<nO, nt>>, <<nO, nv>>,
            <<nO, nu>>} |->
        CASE p = <<nA, iin>> -> FileAt(<<"i">>, IF p = touched THEN 6 ELSE 2)
          [] p = <<nA, nd, tn>> -> FileAt(ct, IF p = touched THEN 6 ELSE 2)
          [] p = <<nA, nd, vn>> -> FileAt(cv, IF p = touched THEN 6 ELSE 2)
          [] p = <<nA, nd, nu>> -> FileAt(<<"u">>, IF p = touched THEN 6 ELSE 2)
          [] p \in {BinDir \o <<np>>, BinDir \o <<nq>>, BinDir \o <<nr>>} ->
                FileAt(<<>>, IF p = touched THEN 6 ELSE 4)
          [] p \in {<<nO, nt>>, <<nO, nv>>, <<nO, nu>>} ->
                FileAt(Old, IF p = aged THEN age ELSE 5)
          [] OTHER -> DirE]

InitUpdate ==
    /\ \E ct \in TemplateTexts, cv \in SecondTexts, touched \in Touches,
          aged \in Ages, age \in {1, 3} :
          /\ touched = <<>> \/ aged = <<>>
          /\ aged = <<>> => age = 1
          /\ fs = UpdateFs(ct, cv, touched, aged, age)
    /\ programs = RunPrograms
    /\ clock = 7
    /\ trees = NewTreesOn(fs, TwoRoots, <<nO>>, <<nd>>, FALSE, FALSE, TRUE)
    /\ pc = "start"
    /\ IdleRun
    /\ text = <<>>
    /\ call = NoCall

NextUpdate ==
    \/ ProcessStart
    \/ \E w \in Worker : WorkerStep(w)
    \/ ProcessJoin

SpecUpdate == InitUpdate /\ [][NextUpdate]_vars

(***************************************************************************)
(* SpecPrune: the release of a Trees object with delete enabled after a    *)
(* run that has ended, over every output tree made of the file O/a, the    *)
(* empty directory O/e and the directories O/k and O/k/j with the files    *)
(* O/k/b and O/k/j/c.  Each file is absent, stale (in the snapshot and not *)
(* recorded) or kept (recorded by the run).                                *)
(***************************************************************************)
na == <<"a">>
nb == <<"b">>
nc == <<"c">>
nk == <<"k">>
nj == <<"j">>

FileStates == {"absent", "stale", "kept"}

PruneFs(a, b, c, k, j, e) ==
    [p \in {<<nA>>, <<nB>>, BinDir, <<nO>>, <<nO, na>>, <<nO, ne>>, <<nO, nk>>,
            <<nO, nk, nb>>, <<nO, nk, nj>>, <<nO, nk, nj, nc>>} |->
        CASE p = <<nO, na>> -> IF a = "absent" THEN NoEntry ELSE FileAt(Old, 2)
          [] p = <<nO, nk, nb>> -> IF b = "absent" THEN NoEntry ELSE FileAt(Old, 2)
          [] p = <<nO, nk, nj, nc>> ->
                IF c = "absent" THEN NoEntry ELSE FileAt(Old, 2)
          [] p = <<nO, ne>> -> IF e THEN DirE ELSE NoEntry
          [] p = <<nO, nk>> -> IF k THEN DirE ELSE NoEntry
          [] p = <<nO, nk, nj>> -> IF j THEN DirE ELSE NoEntry
          [] OTHER -> DirE]

\* The paths that the run recorded.
PruneKept(a, b, c) ==
    (IF a = "kept" THEN {<<nO, na>>} ELSE {})
    \cup (IF b = "kept" THEN {<<nO, nk, nb>>} ELSE {})
    \cup (IF c = "kept" THEN {<<nO, nk, nj, nc>>} ELSE {})

InitPrune ==
    /\ \E a \in FileStates, b \in FileStates, c \in FileStates,
          k \in BOOLEAN, j \in BOOLEAN, e \in BOOLEAN :
          /\ c # "absent" => j
          /\ (j \/ b # "absent") => k
          /\ fs = PruneFs(a, b, c, k, j, e)
          /\ trees = [NewTreesOn(fs, TwoRoots, <<nO>>, <<>>, FALSE, TRUE, FALSE)
                        EXCEPT !.output_files = PruneKept(a, b, c)]
    /\ programs = RunPrograms
    /\ clock = 4
    /\ pc = "done"
    /\ IdleRun
    /\ text = <<>>
    /\ call = NoCall

NextPrune == Destroy

SpecPrune == InitPrune /\ [][NextPrune]_vars

(***************************************************************************)
(* SpecHidden: a run of Trees.process over the subtree d of root A, with   *)
(* process_hidden on or off.  d may hold the plain file u, the hidden file *)
(* .g, the hidden entry .h (a file, or a directory holding the file f) and *)
(* the directory w (holding the file k or the hidden file .k).             *)
(***************************************************************************)
nw == <<"w">>
dg == <<".", "g">>
dh == <<".", "h">>
dk == <<".", "k">>

HiddenFs(u, g, h, w) ==
    [p \in {<<nA>>, <<nB>>, BinDir, <<nO>>, <<nA, nd>>, <<nA, nd, nu>>,
            <<nA, nd, dg>>, <<nA, nd, dh>>, <<nA, nd, dh, nf>>, <<nA, nd, nw>>,
            <<nA, nd, nw, nk>>, <<nA, nd, nw, dk>>} |->
        CASE p = <<nA, nd, nu>> -> IF u THEN FileAt(<<"u">>, 1) ELSE NoEntry
          [] p = <<nA, nd, dg>> -> IF g THEN FileAt(<<"g">>, 1) ELSE NoEntry
          [] p = <<nA, nd, dh>> ->
                IF h = "dir" THEN DirE
                ELSE IF h = "file" THEN FileAt(<<"h">>, 1) ELSE NoEntry
          [] p = <<nA, nd, dh, nf>> ->
                IF h = "dir" THEN FileAt(<<"f">>, 1) ELSE NoEntry
          [] p = <<nA, nd, nw>> -> IF w = "none" THEN NoEntry ELSE DirE
          [] p = <<nA, nd, nw, nk>> ->
                IF w = "plain" THEN FileAt(<<"k">>, 1) ELSE NoEntry
          [] p = <<nA, nd, nw, dk>> ->
                IF w = "hidden" THEN FileAt(<<"k">>, 1) ELSE NoEntry
          [] OTHER -> DirE]

InitHidden ==
    /\ \E u \in BOOLEAN, g \in BOOLEAN, h \in {"none", "file", "dir"},
          w \in {"none", "plain", "hidden"} :
          fs = HiddenFs(u, g, h, w)
    /\ programs = RunPrograms
    /\ clock = 4
    /\ \E hidden \in BOOLEAN :
          trees = NewTrees(TwoRoots, <<nO>>, <<nd>>, hidden, FALSE, FALSE)
    /\ pc = "start"
    /\ IdleRun
    /\ text = <<>>
    /\ call = NoCall

SpecHidden == InitHidden /\ [][Next]_vars

(***************************************************************************)
(* SpecJoin: Trees.process on the trees of SpecHidden, where no task       *)
(* raises, and on those of SpecAbort, where some do; the event loop runs   *)
(* whatever can run.                                                       *)
(***************************************************************************)
InitJoin == InitHidden \/ InitAbort

SpecJoin == InitJoin /\ [][Next]_vars /\ WF_<<pc, awaited>>(Turn)

(***************************************************************************)
(* SpecUnreached: Trees.process and Trees.__del__ on a build directory d   *)
(* that holds the file u and a directory named $include(x), which holds x  *)
(* with the text w and the file k.  Seen from d/$include(x)/k the name     *)
(* expands to w, x being found beside k; seen from the directory itself x  *)
(* is found only when d holds an x too.  The output tree is empty or holds *)
(* the outputs of an earlier run and a stale file s.                       *)
(***************************************************************************)
nIncludeX == CallText(mInclude, nx, NoBytes)

UnreachedFs(outer, shape) ==
    [p \in {<<nA>>, <<nB>>, BinDir, <<nA, nd>>, <<nA, nd, nu>>, <<nA, nd, nx>>,
            <<nA, nd, nIncludeX>>, <<nA, nd, nIncludeX, nx>>,
            <<nA, nd, nIncludeX, nk>>, <<nO>>, <<nO, nu>>, <<nO, nx>>,
            <<nO, ns>>, <<nO, nw>>, <<nO, nw, nx>>, <<nO, nw, nk>>} |->
        CASE p = <<nA, nd, nu>> -> FileAt(<<"u">>, 1)
          [] p = <<nA, nd, nx>> -> IF outer THEN FileAt(<<"w">>, 1) ELSE NoEntry
          [] p = <<nA, nd, nIncludeX, nx>> -> FileAt(<<"w">>, 1)
          [] p = <<nA, nd, nIncludeX, nk>> -> FileAt(<<"k">>, 1)
          [] p \in {<<nO, nu>>, <<nO, ns>>, <<nO, nw, nx>>, <<nO, nw, nk>>} ->
                IF shape = "built" THEN FileAt(Old, 2) ELSE NoEntry
          [] p = <<nO, nx>> ->
                IF shape = "built" /\ outer THEN FileAt(Old, 2) ELSE NoEntry
          [] p = <<nO, nw>> -> IF shape = "built" THEN DirE ELSE NoEntry
          [] OTHER -> DirE]

InitUnreached ==
    /\ \E outer \in BOOLEAN, shape \in {"empty", "built"} :
          fs = UnreachedFs(outer, shape)
    /\ programs = RunPrograms
    /\ clock = 4
    /\ \E delete \in BOOLEAN, update \in BOOLEAN :
          trees = NewTreesOn(fs, TwoRoots, <<nO>>, <<nd>>, FALSE, delete, update)
    /\ pc = "start"
    /\ IdleRun
    /\ text = <<>>
    /\ call = NoCall

SpecUnreached == InitUnreached /\ [][NextRun]_vars

(***************************************************************************)
(* SpecStacks: two Expand objects, each made by process_file for a file of *)
(* root A, include their files while the worker tasks that hold them take  *)
(* turns.  A step is one push or one pop of Expand.include, or the         *)
(* find_on_path of Macros.include before a push.  call holds the two       *)
(* objects: ctx[c].stack is the _stack of the Expand c, ctx[c].pushed the  *)
(* paths it has pushed so far, ctx[c].back whether the include at the top  *)
(* of its stack has expanded the call its file holds.                      *)
(***************************************************************************)
Context == 1..2

NewContext(obj) ==
    [path |-> obj, real |-> find_object(obj), stack |-> <<>>, pushed |-> <<>>,
     back |-> FALSE, state |-> "new"]

\* One list of paths that every Expand shares.
StackShared(ctx, c) == ctx[1].stack \o ctx[2].stack

\* self._stack of the Expand c.
StackOf(ctx, c) == ctx[c].stack

\* The arguments of the calls of $include that the files hold: f, g, ../f.
IncludeArgs == {nf, ng, <<".", ".", "/", "f">>}

IncludeCalls == {CallText(mInclude, a, NoBytes) : a \in IncludeArgs}

\* The argument of the $include that the bytes are, NoBytes when they are
\* none.
IncludeArgOf(bytes) ==
    IF bytes \in IncludeCalls
    THEN CHOOSE a \in IncludeArgs : bytes = CallText(mInclude, a, NoBytes)
    ELSE NoBytes

TopArg(x) == IncludeArgOf(ReadBytes(Last(x.stack)))

InitStacks ==
    /\ \E cf \in {<<"a">>} \cup IncludeCalls, cg \in {<<"b">>} \cup IncludeCalls,
          cdf \in {<<>>, <<"c">>} \cup IncludeCalls :
          fs = ExpandFs(cf, cg, cdf)
    /\ programs = (BinDir \o <<np>>) :> [stdout |-> <<"o">>, returncode |-> 0]
    /\ clock = 1
    /\ trees = NewTrees(TwoRoots, <<nO>>, <<>>, FALSE, FALSE, FALSE)
    /\ pc = "idle"
    /\ IdleRun
    /\ text = <<>>
    /\ \E o1, o2 \in {<<nf>>, <<ng>>, <<nd, nf>>} :
          /\ find_object(o1) # NoPath /\ find_object(o2) # NoPath
          /\ call = [op |-> "contexts", ctx |-> <<NewContext(o1), NewContext(o2)>>]

SetContext(c, x) ==
    /\ call' = [call EXCEPT !.ctx[c] = x]
    /\ UNCHANGED <<fs, programs, clock, trees, work_queue, unfinished, workers,
                   pc, error, stdout, awaited, text>>

\* process_file calls include(real_path): the path is pushed.
ContextBegin(c) ==
    /\ call.ctx[c].state = "new"
    /\ SetContext(c, [call.ctx[c] EXCEPT !.stack = <<call.ctx[c].real>>,
                                         !.pushed = <<call.ctx[c].real>>,
                                         !.state = "running"])

\* The state of the Expand x once find_on_path has returned found.
PushFound(x, found) ==
    IF found = NoPath THEN [x EXCEPT !.state = "raised"]
    ELSE [x EXCEPT !.stack = Append(@, found), !.pushed = Append(@, found)]

\* The file at the top of the stack holds $include: file_arg looks for the
\* file with find_on_path, and include pushes what was found.
ContextInclude(c) ==
    /\ call.ctx[c].state = "running"
    /\ ~call.ctx[c].back
    /\ TopArg(call.ctx[c]) # NoBytes
    /\ SetContext(c, PushFound(call.ctx[c],
                              find_on_path(Parent(call.ctx[c].path),
                                           PathOfBytes(TopArg(call.ctx[c])),
                                           StackOf(call.ctx, c))))

\* The state of the Expand x once include has popped its stack.
Returned(x, stack) ==
    [x EXCEPT !.stack = stack, !.back = TRUE,
              !.state = IF stack = <<>> THEN "returned" ELSE "running"]

\* The expansion of the file at the top of the stack has ended: include
\* pops it.
ContextReturn(c) ==
    /\ call.ctx[c].state = "running"
    /\ call.ctx[c].back \/ TopArg(call.ctx[c]) = NoBytes
    /\ SetContext(c, Returned(call.ctx[c], Pop(call.ctx[c].stack)))

NextStacks ==
    \/ \E c \in Context : ContextBegin(c)
    \/ \E c \in Context : ContextInclude(c)
    \/ \E c \in Context : ContextReturn(c)

SpecStacks == InitStacks /\ [][NextStacks]_vars

(***************************************************************************)
(* SpecClassify: process_file on one file of root A, whose name is drawn   *)
(* from the names that carry the segments .copy, .in and .nancy in every   *)
(* order, before an extension and within longer words.  The file holds     *)
(* plain text or an include of the fragment i.in; the output tree is empty *)
(* or holds every output from an earlier run, stamped 2; the file is       *)
(* stamped 1, 2 or 3, the fragment 1 or 3, and this run stamps 4.          *)
(***************************************************************************)
Txt == <<".", "t", "x", "t">>
Right == <<"r", "i", "g", "h", "t">>

ClassNames ==
    {nx, nx \o CopySuffix, nx \o TemplateSuffix, nx \o InputSuffix, nx \o Txt,
     nx \o CopySuffix \o TemplateSuffix, nx \o TemplateSuffix \o CopySuffix,
     nx \o InputSuffix \o CopySuffix, nx \o CopySuffix \o InputSuffix,
     nx \o InputSuffix \o TemplateSuffix, nx \o TemplateSuffix \o InputSuffix,
     nx \o TemplateSuffix \o Txt, nx \o InputSuffix \o Txt,
     nx \o CopySuffix \o Txt, nx \o TemplateSuffix \o Txt \o Txt,
     nx \o InputSuffix \o Txt \o Txt, nx \o CopySuffix \o Right,
     nx \o InputSuffix \o <<"n">>, nx \o TemplateSuffix \o <<"x">>,
     nx \o CopySuffix \o Right \o CopySuffix}

ClassTexts == {<<"a">>, CallText(mInclude, iin, NoBytes)}

\* The names that an output of a file of ClassNames may have.
ClassOutputs ==
    ClassNames \cup {RemoveFirstCopy(n) : n \in ClassNames}
               \cup {RemoveTemplate(n) : n \in ClassNames}
               \cup {nx \o Right, nx \o CopySuffix \o Right}

ClassFs(name, ct, mf, mi, built) ==
    [p \in {<<nA>>, <<nB>>, <<nA, iin>>, <<nA, name>>, BinDir, <<nO>>}
            \cup {<<nO, q>> : q \in ClassOutputs} |->
        CASE p = <<nA, iin>> -> FileAt(<<"i">>, mi)
          [] p = <<nA, name>> -> FileAt(ct, mf)
          [] Len(p) = 2 /\ p[1] = nO ->
                IF built THEN FileAt(Old, 2) ELSE NoEntry
          [] OTHER -> DirE]

InitClassify ==
    /\ \E name \in ClassNames, ct \in ClassTexts, mf \in 1..3, mi \in {1, 3},
          built \in BOOLEAN :
          fs = ClassFs(name, ct, mf, mi, built)
    /\ programs = RunPrograms
    /\ clock = 4
    /\ trees = NewTrees(TwoRoots, <<nO>>, <<>>, FALSE, FALSE, FALSE)
    /\ pc = "idle"
    /\ IdleRun
    /\ text = <<>>
    /\ call = NoCall

\* The state that the task process_file leaves, r being what it returned.
Processed(r, name, only_newer) ==
    /\ fs' = r.fs
    /\ trees' = [trees EXCEPT !.output_files = r.output_files]
    /\ stdout' = r.stdout
    /\ error' = r.err
    /\ call' = [op |-> "process_file", name |-> name,
                only_newer |-> only_newer, before |-> fs]

\* process_file(A/name, name, only_newer) is awaited.
Classify(name, only_newer) ==
    /\ call.op = "none"
    /\ IsFile(<<nA, name>>)
    /\ Processed(process_file(<<nA, name>>, <<name>>, only_newer), name,
                 only_newer)
    /\ UNCHANGED <<programs, clock, work_queue, unfinished, workers, pc,
                   awaited, text>>

NextClassify ==
    \E name \in ClassNames, only_newer \in BOOLEAN : Classify(name, only_newer)

SpecClassify == InitClassify /\ [][NextClassify]_vars

(***************************************************************************)
(* The overlay (C1, C2, C3).                                               *)
(***************************************************************************)
\* root / obj is a regular file and not a symbolic link.
RegularFile(path) == IsFile(path) /\ ~IsSymlink(path)

\* The roots, by index, in which root / obj exists.
RootsWith(obj) == {i \in 1..Len(inputs) : Exists(JoinPath(inputs[i], obj))}

\* The smallest index of a root in which root / obj exists.
FirstRootWith(obj) == CHOOSE i \in RootsWith(obj) : \A j \in RootsWith(obj) : i <= j

FoundObject == call.op = "find_object"

\* root / obj is a symbolic link whose target lies inside root.
InsideLink(root, obj) ==
    IsSymlink(JoinPath(root, obj))
    /\ IsPrefix(Resolve(root), Resolve(JoinPath(root, obj)))

\* The path, relative to root, of the target of the link root / obj.
TargetIn(root, obj) ==
    SubSeq(Resolve(JoinPath(root, obj)), Len(Resolve(root)) + 1,
           Len(Resolve(JoinPath(root, obj))))

\* C1, amended: for obj existing in some root and i the smallest index of a
\* root in which root_i / obj exists, find_object(obj) returns root_i / obj
\* unless root_i / obj is a symbolic link whose target lies inside root_i;
\* for such a link it returns what it returns for the target's path relative
\* to root_i: root_j / target for the smallest j in which that exists.
C1_FirstRootWins ==
    (FoundObject /\ RootsWith(call.obj) # {}) =>
        LET root == inputs[FirstRootWith(call.obj)]
            target == TargetIn(root, call.obj)
        IN  IF InsideLink(root, call.obj)
            THEN /\ FirstRootWith(target) <= FirstRootWith(call.obj)
                 /\ call.res = JoinPath(inputs[FirstRootWith(target)], target)
            ELSE call.res = JoinPath(root, call.obj)

\* C1, witness: d/y is a regular file of both roots and A's is returned.
C1_Witness ==
    /\ FoundObject
    /\ call.obj = <<nd, ny>>
    /\ RegularFile(<<nA, nd, ny>>)
    /\ RegularFile(<<nB, nd, ny>>)
    /\ call.res = <<nA, nd, ny>>

\* C1, as stated: whenever obj is a regular file of some root, find_object
\* returns root_i / obj for the smallest i with root_i / obj existing.
C1_AsStated ==
    (FoundObject /\ \E i \in 1..Len(inputs) : RegularFile(JoinPath(inputs[i], call.obj)))
        => call.res = JoinPath(inputs[FirstRootWith(call.obj)], call.obj)

\* Both roots hold the directory d and a file d/y.
BothHoldDY ==
    /\ IsDir(<<nA, nd>>) /\ IsDir(<<nB, nd>>)
    /\ IsFile(<<nA, nd, ny>>) /\ IsFile(<<nB, nd, ny>>)

\* What the run wrote to the output d/y.
OutputDY == Raw(<<nO, nd, ny>>)

\* C2, amended: when both roots hold the directory d and a file d/y, the
\* run writes the output d/y from the d/y of A, the earlier root.
C2_EarlierRootWins ==
    (pc = "done" /\ BothHoldDY) =>
        OutputDY.kind = "file" /\ OutputDY.data = ReadBytes(<<nA, nd, ny>>)

\* C2, witness: a finished run over two roots that hold different regular
\* files d/y.
C2_Witness ==
    /\ pc = "done"
    /\ RegularFile(<<nA, nd, ny>>)
    /\ RegularFile(<<nB, nd, ny>>)
    /\ ReadBytes(<<nA, nd, ny>>) # ReadBytes(<<nB, nd, ny>>)
    /\ OutputDY.kind = "file"

\* C2, as stated: when both roots hold the directory d and a file d/y, the
\* run writes the output d/y from the d/y of B, the later root.
C2_AsStated ==
    (pc = "done" /\ BothHoldDY) =>
        OutputDY.kind = "file" /\ OutputDY.data = ReadBytes(<<nB, nd, ny>>)

\* The names that root / obj holds, read off the filesystem.
ChildNames(dir) ==
    {n \in {nx, ny, nz, nd, no} : Raw(Append(dir, n)).kind # "none"}

\* C3: scandir(obj) returns the set of the names that root / obj holds for
\* some root where root / obj is a directory, so each such name once and no
\* other name; and a finished run over two roots that both hold the
\* directory d has processed d/x when only A holds it.
C3_ChildrenMerged ==
    /\ call.op = "scandir" =>
          \A n \in {nx, ny, nz, nd, no} :
             n \in call.res <=>
                \E i \in 1..Len(inputs) :
                   /\ Raw(JoinPath(inputs[i], call.obj)).kind = "dir"
                   /\ n \in ChildNames(JoinPath(inputs[i], call.obj))
    /\ call.op = "scandir" => call.res \subseteq {nx, ny, nz, nd, no}
    /\ (pc = "done" /\ IsDir(<<nA, nd>>) /\ IsDir(<<nB, nd>>)
           /\ IsFile(<<nA, nd, nx>>) /\ ~Exists(<<nB, nd, nx>>)) =>
          /\ Raw(<<nO, nd, nx>>).data = ReadBytes(<<nA, nd, nx>>)
          /\ Cardinality({k \in 1..Len(awaited) :
                             awaited[k].obj = <<nd, nx>>
                             /\ awaited[k].kind = "process_file"}) = 1

\* C3, witness: both roots hold the directory d, only A holds d/x and only B
\* holds d/y; scandir(d) returned both names and the finished run wrote d/x.
C3_Witness ==
    /\ call.op = "scandir"
    /\ call.obj = <<nd>>
    /\ call.res = {nx, ny}
    /\ Raw(<<nA, nd, nx>>).kind = "file" /\ Raw(<<nB, nd, nx>>).kind = "none"
    /\ Raw(<<nA, nd, ny>>).kind = "none" /\ Raw(<<nB, nd, ny>>).kind = "file"
    /\ pc = "done"
    /\ Raw(<<nO, nd, nx>>).kind = "file"

(***************************************************************************)
(* Macros (C4 .. C8).                                                      *)
(***************************************************************************)
MacroCalled == call.op = "do_macro"

\* The file that the one argument of a paste or include call names, as
\* file_arg finds it from the template.
ArgFile == file_arg(call.args[1], FALSE, TemplateExpand, NewState).path

\* An include or paste call of one plain file name that is found.
CalledOnFile(name) ==
    /\ MacroCalled
    /\ call.name = name
    /\ call.args \in {<<nf>>, <<ng>>}
    /\ call.input = NoBytes
    /\ ArgFile # NoPath

\* The state in which the one file f is on the include stack.
Including(f) == [stack |-> <<f>>, ev |-> <<>>]

\* C4, amended: the include macro applied to a file f returns what the method
\* Macros.expand returns for the contents of f as its input while f is on
\* the include stack, the same bytes or the same error.
C4_IncludeIsExpandOfContents ==
    CalledOnFile(mInclude) =>
        /\ call.res.err =
              MacroExpand(NoArgs, ReadBytes(ArgFile), TemplateExpand,
                          Including(ArgFile)).err
        /\ call.res.out =
              MacroExpand(NoArgs, ReadBytes(ArgFile), TemplateExpand,
                          Including(ArgFile)).out

\* C4, witness: f holds an escaped call of path; include of f returned the
\* call without its backslash.
C4_Witness ==
    /\ CalledOnFile(mInclude)
    /\ ArgFile = <<nA, nf>>
    /\ ReadBytes(ArgFile) = <<BS>> \o CallText(mPath, NoBytes, NoBytes)
    /\ call.res.err = NoErr
    /\ call.res.out = CallText(mPath, NoBytes, NoBytes)

\* C4, as stated: the include macro applied to a file f returns what the
\* expand macro returns when applied to the contents of f, f being on the
\* include stack.
C4_AsStated ==
    CalledOnFile(mInclude) =>
        /\ call.res.err =
              do_macro(mExpand, NoArgs, ReadBytes(ArgFile), TemplateExpand,
                       Including(ArgFile)).err
        /\ call.res.out =
              do_macro(mExpand, NoArgs, ReadBytes(ArgFile), TemplateExpand,
                       Including(ArgFile)).out

\* C5: expanding a backslash followed by a macro call text of any of the four
\* shapes returns exactly the call text, and nothing is dispatched, read or
\* started on the way.
C5_EscapeRoundTrips ==
    call.op = "escaped" =>
        /\ call.res.err = NoErr
        /\ call.res.out = CallText(call.name, call.a, call.i)
        /\ call.res.ev = <<>>
        /\ call.res.cmd = <<>>

\* C5, witness: the escaped call has two arguments and an input that holds
\* a call of include.
C5_Witness ==
    /\ call.op = "escaped"
    /\ call.name = mPath
    /\ call.a = <<"a", ",", "b">>
    /\ call.i = CallText(mInclude, nf, NoBytes)
    /\ call.res.out = <<"$">> \o mPath \o <<"(", "a", ",", "b", ")", "{">>
                       \o CallText(mInclude, nf, NoBytes) \o <<"}">>

\* The bytes without one final newline, if there is one.
MinusOneNewline(data) ==
    IF data # <<>> /\ data[Len(data)] = NL THEN Front(data) ELSE data

\* C6: paste of one file name returns the bytes of the file found, no macro
\* in them expanded, minus one final newline if the file ends with one.
C6_PasteMinusOneNewline ==
    CalledOnFile(mPaste) =>
        /\ call.res.err = NoErr
        /\ call.res.out = MinusOneNewline(ReadBytes(ArgFile))

\* The files find_on_path looks at, nearest directory first.
Candidates ==
    [k \in 1..2 |->
        find_object(JoinPath(Parents(Parent(TemplateExpand.path))[k],
                             normpath(call.file)))]

Eligible(k) ==
    /\ Candidates[k] # NoPath
    /\ IsFile(Candidates[k])
    /\ \A n \in 1..Len(call.stack) : call.stack[n] # Candidates[k]

\* f and g of root A include each other and d holds no f.
MutualInclude ==
    /\ fs[<<nA, nf>>].data = CallText(mInclude, ng, NoBytes)
    /\ fs[<<nA, ng>>].data = CallText(mInclude, nf, NoBytes)
    /\ fs[<<nA, nd, nf>>].kind = "none"

\* C7: find_on_path never returns a path that is on the include stack: it
\* returns the nearest file that is not on it, as if the others were not
\* there; and when f includes g and g includes f the expansion of a call
\* that includes either ends with the error "cannot find".
C7_CycleIsNotFound ==
    /\ call.op = "find_on_path" =>
          /\ \A n \in 1..Len(call.stack) : call.res # call.stack[n]
          /\ call.res = (IF Eligible(1) THEN Candidates[1]
                         ELSE IF Eligible(2) THEN Candidates[2] ELSE NoPath)
    /\ (call.op = "expand" /\ MutualInclude
           /\ text \in {CallText(mInclude, nf, NoBytes),
                         CallText(mInclude, ng, NoBytes)}) =>
          call.res.err = CannotFind

\* C7, witness: f and g include each other and the expansion of a call that
\* includes f has ended with "cannot find" after reading f and then g.
C7_Witness ==
    /\ call.op = "expand"
    /\ MutualInclude
    /\ text = CallText(mInclude, nf, NoBytes)
    /\ call.res.err = CannotFind
    /\ call.res.stack = <<<<nA, nf>>, <<nA, ng>>>>

\* The errors of the shape contract that a call violates.
ShapeErrors(name, args, input) ==
    (IF name = mPath /\ args # NoArgs
     THEN {"$path does not take arguments"} ELSE {})
    \cup (IF name = mPath /\ input # NoBytes
          THEN {"$path does not take an input"} ELSE {})
    \cup (IF name = mOutputpath /\ args # NoArgs
          THEN {"$outputpath does not take arguments"} ELSE {})
    \cup (IF name = mOutputpath /\ input # NoBytes
          THEN {"$outputpath does not take an input"} ELSE {})
    \cup (IF name = mExpand /\ args # NoArgs
          THEN {"$expand does not take arguments"} ELSE {})
    \cup (IF name = mExpand /\ input = NoBytes
          THEN {"$expand takes an input"} ELSE {})
    \cup (IF name = mPaste /\ (args = NoArgs \/ Len(args) # 1)
          THEN {"$paste needs exactly one argument"} ELSE {})
    \cup (IF name = mPaste /\ input # NoBytes
          THEN {"$paste does not take an input"} ELSE {})
    \cup (IF name = mInclude /\ (args = NoArgs \/ Len(args) # 1)
          THEN {"$include needs exactly one argument"} ELSE {})
    \cup (IF name = mInclude /\ input # NoBytes
          THEN {"$include does not take an input"} ELSE {})
    \cup (IF name = mRun /\ args = NoArgs
          THEN {"$run needs at least one argument"} ELSE {})

ShapeViolated ==
    MacroCalled /\ ShapeErrors(call.name, call.args, call.input) # {}

\* No file was read and no process started.
NothingExecuted(ev) == \A n \in 1..Len(ev) : ev[n].op \notin {"read", "start"}

\* A "$" starts every macro call.
HasCall(t) == \E n \in 1..Len(t) : t[n] = "$"

\* No macro call is nested in the arguments or the input of the call.
NothingNested ==
    /\ call.args # NoArgs => \A n \in 1..Len(call.args) : ~HasCall(call.args[n])
    /\ call.input # NoBytes => ~HasCall(call.input)

\* The macro calls nested in the arguments and the input expand without
\* error.
NestedExpand ==
    /\ call.args # NoArgs =>
          \A n \in 1..Len(call.args) :
              expand_arg(call.args[n], TemplateExpand, NewState).err = NoErr
    /\ call.input # NoBytes =>
          expand_arg(call.input, TemplateExpand, NewState).err = NoErr

\* C8, amended: a call that violates its macro's shape contract fails; it
\* fails with that macro's error when the calls nested in its arguments and
\* input expand without error, and then the macro is the last thing
\* dispatched: it has read no file and started no process itself.  With no
\* nested call nothing at all is read or started.
C8_ShapeCheckedBeforeMacroRuns ==
    ShapeViolated =>
        /\ call.res.err # NoErr
        /\ NestedExpand =>
              /\ call.res.err \in ShapeErrors(call.name, call.args, call.input)
              /\ call.res.ev[Len(call.res.ev)] =
                    [op |-> "macro", arg |-> call.name]
        /\ NothingNested => (NestedExpand /\ NothingExecuted(call.res.ev))

\* C8, witness: a call of path with an argument that includes f has failed
\* with the error of path after f was read.
C8_Witness ==
    /\ ShapeViolated
    /\ call.name = mPath
    /\ call.args = <<CallText(mInclude, nf, NoBytes)>>
    /\ call.input = NoBytes
    /\ call.res.err = "$path does not take arguments"
    /\ \E n \in 1..Len(call.res.ev) : call.res.ev[n].op = "read"

\* C8, as stated: a call that violates its macro's shape contract fails with
\* that macro's error, and no file is read and no process started, by the
\* calls nested in its arguments and input either.
C8_AsStated ==
    ShapeViolated =>
        /\ call.res.err \in ShapeErrors(call.name, call.args, call.input)
        /\ NothingExecuted(call.res.ev)

(***************************************************************************)
(* The output path (C11).                                                  *)
(***************************************************************************)
OutputPathSet == call.op = "set_output_path"

\* The name holds a call of outputpath.
CallsOutputpath(name) ==
    \E i \in 1..(Len(name) - Len(mOutputpath)) :
        SubSeq(name, i, i + Len(mOutputpath)) = <<"$">> \o mOutputpath

\* C11: $outputpath fails with "$outputpath is not available while expanding
\* the filename" on a new Expand and when the file name that set_output_path
\* expands calls it; once set_output_path has returned, $outputpath returns
\* the path that set_output_path computed.
C11_OutputPathAfterFilename ==
    OutputPathSet =>
        /\ call.before.err = OutputPathUnavailable
        /\ CallsOutputpath(call.name) =>
              (call.res.err = OutputPathUnavailable
                 /\ call.res.e.output_path = NoPath)
        /\ call.res.err = NoErr =>
              /\ call.res.e.output_path # NoPath
              /\ call.after.err = NoErr
              /\ call.after.out = BytesOfPath(call.res.e.output_path)
        /\ call.name \in {nt, nt \o TemplateSuffix, nt \o CopySuffix} =>
              (call.res.err = NoErr /\ call.after.out = <<"d", "/", "t">>)

\* C11, witness: the file name x$outputpath.nancy could not be expanded, and
\* $outputpath had failed before.
C11_Witness ==
    /\ OutputPathSet
    /\ call.name = <<"x">> \o CallText(mOutputpath, NoBytes, NoBytes)
                          \o TemplateSuffix
    /\ call.before.err = OutputPathUnavailable
    /\ call.res.err = OutputPathUnavailable

(***************************************************************************)
(* Programs (C12, C13).                                                    *)
(***************************************************************************)
ProgramRun == call.op \in {"run", "expand_run"}

\* The directories searched for the program, the nearest first: the
\* directory d of the template, then the root of the overlay.
SearchDirs == << <<nd>>, <<>> >>

\* The file of the input trees named call.prog in the k-th directory
\* searched, when there is one that is not being included.
InTree(k) ==
    /\ find_object(SearchDirs[k] \o PathOfBytes(call.prog)) # NoPath
    /\ IsFile(find_object(SearchDirs[k] \o PathOfBytes(call.prog)))
    /\ \A n \in 1..Len(call.stack) :
          call.stack[n] # find_object(SearchDirs[k] \o PathOfBytes(call.prog))

\* The program that the lookup order of the claim gives, or NoPath.
ProgramExpected ==
    IF InTree(1) THEN find_object(SearchDirs[1] \o PathOfBytes(call.prog))
    ELSE IF InTree(2) THEN find_object(SearchDirs[2] \o PathOfBytes(call.prog))
    ELSE IF call.prog = np /\ fs[BinDir \o <<np>>].kind = "file"
    THEN BinDir \o <<np>>
    ELSE NoPath

StartedIn(ev) == {ev[n].arg : n \in {m \in 1..Len(ev) : ev[m].op = "start"}}

\* C12: $run takes the program from the nearest directory of the input
\* trees, from that of the template up to the root, that holds a file of
\* that name (one being included aside); the system search path is used
\* only when there is none; when that fails too the call fails with
\* "cannot find program" and no process is started.
C12_ProgramLookupOrder ==
    ProgramRun =>
        /\ ProgramExpected = NoPath =>
              /\ call.res.err = CannotFindProgram
              /\ StartedIn(call.res.ev) = {}
              /\ call.res.cmd = <<>>
        /\ ProgramExpected # NoPath =>
              /\ call.res.err # CannotFindProgram
              /\ StartedIn(call.res.ev) \subseteq {ProgramExpected}
              /\ call.res.err = NoErr =>
                    call.res.inputs[Len(call.res.inputs)] = ProgramExpected
              /\ (call.op = "run" /\ call.cls = "RunMacros") =>
                    /\ call.res.err = NoErr
                    /\ StartedIn(call.res.ev) = {ProgramExpected}
                    /\ call.res.cmd[1].exe = ProgramExpected
              /\ (call.op = "expand_run" /\ call.res.err = NoErr) =>
                    call.res.out = <<"x">> \o BytesOfPath(ProgramExpected)
                                          \o <<"y">>

\* C12, witness: p is in the root and on the system search path but not in
\* d, and the program of the root was started.
C12_Witness ==
    /\ call.op = "run"
    /\ call.cls = "RunMacros"
    /\ call.prog = np
    /\ call.stack = <<>>
    /\ fs[<<nA, nd, np>>].kind = "none"
    /\ fs[<<nA, np>>].kind = "file"
    /\ fs[BinDir \o <<np>>].kind = "file"
    /\ call.res.cmd[1].exe = <<nA, np>>

\* The task process_file of the file d/name of root A.
FileTaskOf(name) == FileTask(<<nA, nd, name>>, <<nd, name>>, trees.update_newer)

WasAwaited(task) == \E k \in 1..Len(awaited) : awaited[k] = task

\* The worker that the task of d/name ended with an exception.
FailedOn(w, name) ==
    workers[w].state = "failed" /\ workers[w].task = FileTaskOf(name)

\* The program that the template d/name runs, when running one is all it
\* does.
ProgramOf(name) ==
    IF fs[<<nA, nd, name>>].data = CallText(mRun, nq, NoBytes)
    THEN BinDir \o <<nq>>
    ELSE IF fs[<<nA, nd, name>>].data = CallText(mRun, nr, NoBytes)
    THEN BinDir \o <<nr>>
    ELSE NoPath

CodeMessage(n) == IF n = 1 THEN "Error code 1" ELSE "Error code 2"

\* The events of ev from the last start of a process on.
SinceStart(ev) ==
    SubSeq(ev, CHOOSE k \in 1..Len(ev) :
                   ev[k].op = "start"
                   /\ \A j \in (k + 1)..Len(ev) : ev[j].op # "start",
           Len(ev))

\* The file that this run wrote at O/name, if it wrote one.
WrittenAt(name) ==
    EntryIn(fs, <<nO, name>>).kind = "file"
    /\ EntryIn(fs, <<nO, name>>).mtime = clock

Classified(name) ==
    call.op = "process_file" /\ call.name = name /\ ~call.only_newer

SourceText(name) == call.before[<<nA, name>>].data

\* The name without its .copy segment, the first if there are several; and
\* without its .nancy segment.
WithoutCopy(n) ==
    LET i == CHOOSE k \in CopyMatches(n) : \A m \in CopyMatches(n) : k <= m
    IN  SubSeq(n, 1, i - 1) \o SubSeq(n, i + Len(CopySuffix), Len(n))

WithoutTemplate(n) ==
    LET i == CHOOSE k \in TemplateMatches(n) : \A m \in TemplateMatches(n) : k <= m
    IN  SubSeq(n, 1, i - 1) \o SubSeq(n, i + Len(TemplateSuffix), Len(n))

\* What the texts of ClassTexts expand to, i.in holding "i".
Expansion(t) == IF t = CallText(mInclude, iin, NoBytes) THEN <<"i">> ELSE t

\* The run wrote data to O/q, recorded it, and did nothing else.
OnlyWrote(q, data) ==
    /\ error = NoErr
    /\ <<nO, q>> \in DOMAIN fs
    /\ fs[<<nO, q>>] = FileAt(data, clock)
    /\ trees.output_files = {<<nO, q>>}
    /\ \A p \in DOMAIN fs \ {<<nO, q>>} : fs[p] = call.before[p]

WroteNothing ==
    error = NoErr /\ fs = call.before /\ trees.output_files = {}

\* C14: update mode being off, a file whose name has the .copy segment is
\* copied verbatim to the name with that segment removed, whatever else the
\* name carries; otherwise a file whose name has the .in segment before the
\* final extension or the end of the name produces no output and is not
\* recorded; otherwise a file whose name has the .nancy segment there is
\* expanded and written under the name with that segment removed; and every
\* other file is copied verbatim under its own name.
C14_ClassifiedByName ==
    \A name \in ClassNames :
        Classified(name) =>
            IF IsCopy(name) THEN OnlyWrote(WithoutCopy(name), SourceText(name))
            ELSE IF IsInput(name) THEN WroteNothing
            ELSE IF IsTemplate(name)
            THEN OnlyWrote(WithoutTemplate(name), Expansion(SourceText(name)))
            ELSE OnlyWrote(name, SourceText(name))

(***************************************************************************)
(* Update mode (C15, C16).                                                 *)
(***************************************************************************)
\* process_file has been awaited on A/name in update mode, and the name is
\* not that of an input-only file.
Updated(name) ==
    /\ call.op = "process_file" /\ call.name = name /\ call.only_newer
    /\ ~(~IsCopy(name) /\ IsInput(name))

\* The name of the output of A/name.
OutputOf(name) ==
    IF IsCopy(name) THEN WithoutCopy(name)
    ELSE IF IsTemplate(name) THEN WithoutTemplate(name) ELSE name

\* The dependencies of A/name: the file itself and, for a template that
\* includes it, the fragment i.in.
DependenciesOf(name) ==
    {<<nA, name>>}
    \cup (IF ~IsCopy(name) /\ IsTemplate(name)
             /\ SourceText(name) = CallText(mInclude, iin, NoBytes)
          THEN {<<nA, iin>>} ELSE {})

\* Before the call the output existed and was no older than any dependency.
WasUpToDate(name) ==
    /\ call.before[<<nO, OutputOf(name)>>].kind = "file"
    /\ \A d \in DependenciesOf(name) :
          call.before[d].mtime <= call.before[<<nO, OutputOf(name)>>].mtime

\* C15: in update mode process_file leaves the filesystem as it was, writing
\* nothing, exactly when the output file already existed with a modification
\* time greater than or equal to that of every dependency; otherwise it
\* writes the output, which gets the time of this run.
C15_SkipsExactlyWhenUpToDate ==
    \A name \in ClassNames :
        Updated(name) =>
            /\ error = NoErr
            /\ WasUpToDate(name) <=> fs = call.before
            /\ ~WasUpToDate(name) =>
                  \E p \in DOMAIN fs : fs[p].kind = "file" /\ fs[p].mtime = clock

\* The template x.nancy, stamped 1, includes i.in, stamped 1; its output x
\* is stamped 2 and is left as it was.
C15_Witness ==
    /\ Updated(nx \o TemplateSuffix)
    /\ DependenciesOf(nx \o TemplateSuffix)
          = {<<nA, nx \o TemplateSuffix>>, <<nA, iin>>}
    /\ WasUpToDate(nx \o TemplateSuffix)
    /\ fs[<<nO, nx>>] = FileAt(Old, 2)
    /\ trees.output_files = {<<nO, nx>>}

\* The outputs of SpecUpdate, the input that each is made from and its text.
Outputs == {nt, nv, nu}

InputOf(o) ==
    IF o = nu THEN <<nA, nd, nu>> ELSE <<nA, nd, o \o TemplateSuffix>>

TextOf(o) == fs[InputOf(o)].data

\* The files that a template reaches through include or paste, and the
\* programs that it finds for run.
Included(o) ==
    IF o # nu /\ TextOf(o) \in {CallText(mInclude, iin, NoBytes),
                                CallText(mPaste, iin, NoBytes)}
    THEN {<<nA, iin>>} ELSE {}

RunBy(o) ==
    IF o = nu THEN {}
    ELSE {BinDir \o <<g>> :
            g \in {h \in {np, nq, nr} :
                     TextOf(o) \in {CallText(mRun, h, NoBytes),
                                    <<"x">> \o CallText(mRun, h, NoBytes)}}}

StatedDependencies(o) == {InputOf(o)} \cup Included(o)

TrackedDependencies(o) == StatedDependencies(o) \cup RunBy(o)

\* One of the files deps is newer than the output o.
NewerThan(deps, o) == \E d \in deps : fs[d].mtime > fs[<<nO, o>>].mtime

\* A step writes the output o.
Rewritten(o) == fs'[<<nO, o>>] # fs[<<nO, o>>]

\* C16: in update mode over an output tree that was up to date before one
\* input or program was touched or one output made older, a step rewrites an
\* output only if a file of its dependency set - the file itself and, for a
\* template, every file reached through include or paste and every program
\* found for run - is newer than it, and a run that ends without an error
\* has rewritten every such output: no other output is written.
C16_ExactlyStaleRewritten ==
    /\ [][\A o \in Outputs :
            Rewritten(o) =>
                /\ NewerThan(TrackedDependencies(o), o)
                /\ fs'[<<nO, o>>].mtime = clock]_vars
    /\ [](pc = "done" /\ error = NoErr =>
            \A o \in Outputs : ~NewerThan(TrackedDependencies(o), o))

\* The program p was touched: t, which runs it, was rewritten and v and u
\* were not.
C16_Witness ==
    /\ pc = "done" /\ error = NoErr
    /\ TextOf(nt) = <<"x">> \o CallText(mRun, np, NoBytes)
    /\ fs[BinDir \o <<np>>].mtime = 6
    /\ fs[<<nO, nt>>] = FileAt(<<"x", "o">>, clock)
    /\ fs[<<nO, nv>>] = FileAt(Old, 5)
    /\ fs[<<nO, nu>>] = FileAt(Old, 5)

\* The claim as stated: the dependency set of a template is the file itself
\* and the files reached through include or paste.
C16_AsStated ==
    [][\A o \in Outputs :
          Rewritten(o) => NewerThan(StatedDependencies(o), o)]_vars

(***************************************************************************)
(* Prune mode (C17, C18).                                                  *)
(***************************************************************************)
\* The files of the output tree.
OutputTreeFiles ==
    {p \in DOMAIN fs : IsPrefix(<<nO>>, p) /\ fs[p].kind = "file"}

\* C17: once the Trees object of a run with delete enabled is released, no
\* file is left in the output tree whose path the run did not record in
\* output_files, so every file that was there at the start and was not
\* recorded has been deleted; no step removes a file whose path is recorded,
\* whether the run wrote it or update mode skipped it; and while delete is
\* not enabled no step removes a file of the output tree.
C17_PruneExactlyStale ==
    /\ [](pc = "released" => OutputTreeFiles \subseteq trees.output_files)
    /\ [][\A p \in OutputTreeFiles :
            (p \in trees.output_files \/ ~trees.delete_ungenerated) =>
                fs'[p].kind = "file"]_vars

\* A run with update and delete: the stale files O/s and O/n/m/s are gone,
\* and t, v and u, whose writes update mode skipped, are as they were.
C17_Witness ==
    /\ pc = "released" /\ error = NoErr
    /\ trees.update_newer
    /\ {<<nO, ns>>, <<nO, nn, nm, ns>>} \subseteq trees.extant_files
    /\ EntryIn(fs, <<nO, ns>>).kind = "none"
    /\ EntryIn(fs, <<nO, nn, nm, ns>>).kind = "none"
    /\ trees.output_files = {<<nO, nt>>, <<nO, nv>>, <<nO, nu>>}
    /\ \A p \in trees.output_files : fs[p] = FileAt(Old, 2)

\* The directories of the output tree, the root included.
OutputTreeDirs ==
    {p \in DOMAIN fs : IsPrefix(<<nO>>, p) /\ fs[p].kind = "dir"}

\* What the directory p holds.
Holds(p) == {q \in DOMAIN fs : q # <<>> /\ Front(q) = p /\ fs[q].kind # "none"}

\* C18: once prune mode has deleted the stale files and the Trees object is
\* released, no directory of the output tree is left empty, so a chain of
\* nested directories that held only stale files is gone entirely; every
\* file that the run recorded is still there and so is every directory on
\* the way to a file or directory that remains; and no error is raised.
C18_EmptyDirectoriesRemoved ==
    pc = "released" =>
        /\ \A p \in OutputTreeDirs : Holds(p) # {}
        /\ \A p \in trees.output_files : fs[p].kind = "file"
        /\ \A p \in OutputTreeDirs \cup OutputTreeFiles :
              \A n \in 1..(Len(p) - 1) : fs[SubSeq(p, 1, n)].kind = "dir"
        /\ error = NoErr

\* O/k held the kept file b and the directory j with the stale file c, and
\* O/e was empty: c, j and e are gone, and k, b, O/a and O remain.
C18_Witness ==
    /\ pc = "released"
    /\ <<nO, nk, nj, nc>> \in trees.extant_files
    /\ fs[<<nO, nk, nj, nc>>].kind = "none"
    /\ fs[<<nO, nk, nj>>].kind = "none"
    /\ fs[<<nO, ne>>].kind = "none"
    /\ trees.output_files = {<<nO, na>>, <<nO, nk, nb>>}
    /\ Holds(<<nO>>) = {<<nO, na>>, <<nO, nk>>}
    /\ Holds(<<nO, nk>>) = {<<nO, nk, nb>>}

(***************************************************************************)
(* Errors (C19).                                                           *)
(***************************************************************************)
\* C19: once a task of the queue has raised, Trees.process ends by raising
\* an error, whatever is still queued: it never returns normally and never
\* waits on the queue for ever.
C19_ErrorsAbortTheRun ==
    /\ [](FailedWorkers # {} => pc # "done")
    /\ (FailedWorkers # {}) ~> (error # NoErr)

\* Every worker has ended on a task that raised while tasks are still
\* queued: join waits for them and nothing can run.
AllWorkersFailed ==
    /\ pc = "join"
    /\ FailedWorkers = Worker
    /\ unfinished > 0

\* Every run ends, or comes to the state in which every worker has failed.
EndsUnlessAllFailed == <>(pc \in {"done", "raised"} \/ AllWorkersFailed)

\* Every step of a run is a turn of the schedule.
StepsAreTurns == [][Turn]_vars

(***************************************************************************)
(* Symbolic links (C20).                                                   *)
(***************************************************************************)
\* The path of obj in the first root, in the order of inputs, that has it.
FirstWith(obj) ==
    IF RootsWith(obj) = {} THEN NoPath
    ELSE JoinPath(inputs[FirstRootWith(obj)], obj)

\* The roots that the target of the symbolic link path lies in.
RootsOfTarget(path) ==
    {i \in 1..Len(inputs) : IsRelativeTo(Resolve(path), Resolve(inputs[i]))}

\* The file that the overlay gives for the target of the link, taken
\* relative to the root r that it lies in.
ThroughOverlay(path, r) ==
    FirstWith(RelativeTo(Resolve(path), Resolve(inputs[r])))

\* C20: find_object(d/y), when the first root that has d/y holds a symbolic
\* link there, returns the link itself if its target lies outside every
\* input root, and otherwise the file that the first root containing the
\* target's root-relative path holds, whichever root the target lies in.
C20_LinksThroughOverlay ==
    (call.op = "find_object" /\ call.obj = <<nd, ny>>
       /\ FirstWith(<<nd, ny>>) # NoPath
       /\ IsSymlink(FirstWith(<<nd, ny>>))) =>
        IF RootsOfTarget(FirstWith(<<nd, ny>>)) = {}
        THEN call.res = FirstWith(<<nd, ny>>)
        ELSE \A r \in RootsOfTarget(FirstWith(<<nd, ny>>)) :
                Resolve(call.res)
                  = Resolve(ThroughOverlay(FirstWith(<<nd, ny>>), r))

(***************************************************************************)
(* Hidden files (C21).                                                     *)
(***************************************************************************)
HiddenName(n) == n # <<>> /\ n[1] = "."

\* A component of the path p after its first k is the name of a hidden
\* file or directory.
HiddenBelow(p, k) == \E i \in (k + 1)..Len(p) : HiddenName(p[i])

\* The tasks put on the queue so far.
TasksPut ==
    {awaited[i] : i \in 1..Len(awaited)}
    \cup {work_queue[i] : i \in 1..Len(work_queue)}

\* The entries of root A in and below the build directory.
BuildEntries ==
    {p \in DOMAIN fs : IsPrefix(<<nA>> \o build, p) /\ fs[p].kind # "none"}

\* C21: unless process_hidden is set, no task is ever put on the queue for a
\* child whose name begins with '.' nor for anything below it, and the
\* output tree never holds anything of such a name; a run that has ended has
\* awaited process_path for every other entry of the build subtree, and
\* with process_hidden set for every entry, hidden or not.
C21_HiddenSkipped ==
    /\ ~trees.process_hidden =>
          /\ \A t \in TasksPut : ~HiddenBelow(t.obj, Len(build))
          /\ \A p \in DOMAIN fs :
                (IsPrefix(<<nO>>, p) /\ fs[p].kind # "none") => ~HiddenBelow(p, 1)
    /\ pc = "done" =>
          \A p \in BuildEntries :
              (trees.process_hidden \/ ~HiddenBelow(p, 1 + Len(build))) <=>
                  PathTask(RelativeTo(p, <<nA>>)) \in TasksPut

\* With process_hidden off the run has ended with the outputs u and w/k
\* and nothing for .g, .h/f.
C21_Witness ==
    /\ pc = "done" /\ ~trees.process_hidden
    /\ fs[<<nA, nd, dg>>].kind = "file"
    /\ fs[<<nA, nd, dh, nf>>].kind = "file"
    /\ fs[<<nA, nd, nw, nk>>].kind = "file"
    /\ EntryIn(fs, <<nO, nu>>).kind = "file"
    /\ EntryIn(fs, <<nO, nw, nk>>).kind = "file"
    /\ EntryIn(fs, <<nO, dg>>).kind = "none"
    /\ EntryIn(fs, <<nO, dh>>).kind = "none"

(***************************************************************************)
(* The include stack (C22).                                                *)
(***************************************************************************)
\* Expand.expand or Expand.include was called with an empty include stack.
ExpandedOrIncluded == call.op \in {"expand", "escaped", "include"}

\* C22: when a call of Expand.expand or Expand.include ends, by returning or
\* by raising, the include stack is the one the call began with.
C22_StackRestored == ExpandedOrIncluded => call.res.stack = <<>>

\* The same of the calls that return.
StackRestoredOnReturn ==
    (ExpandedOrIncluded /\ call.res.err = NoErr) => call.res.stack = <<>>

(***************************************************************************)
(* Output directories (C24).                                               *)
(***************************************************************************)
\* The output directory that process_path computes for the directory obj.
OutputDirOf(obj) ==
    output_file(set_output_path(NewExpand("RunMacros", NoPath, obj), NewState).e)

\* The output directory of the directory that holds obj exists.
ParentOutputExists(obj) == EntryIn(fs, OutputDirOf(Parent(obj))).kind = "dir"

\* C24: every task on the work queue other than one for the build path
\* itself was put there by process_path of its parent directory or for a
\* child of it, and the output directory of that parent exists: it was
\* created before the task was put, so it exists whenever the task runs.
C24_ParentOutputExists ==
    \A i \in 1..Len(work_queue) :
        work_queue[i].obj # build => ParentOutputExists(work_queue[i].obj)

\* The task for w/k waits on the queue and O/w, which the run created,
\* exists.
C24_Witness ==
    /\ \E i \in 1..Len(work_queue) : work_queue[i] = PathTask(<<nd, nw, nk>>)
    /\ OutputDirOf(<<nd, nw>>) = <<nO, nw>>
    /\ EntryIn(fs, <<nO, nw>>).kind = "dir"

(***************************************************************************)
(* The order of evaluation (C23).                                          *)
(***************************************************************************)
Ev(op, arg) == [op |-> op, arg |-> arg]

\* The file that the template d/t finds for the name f.
FoundF == IF IsFile(<<nA, nd, nf>>) THEN <<nA, nd, nf>> ELSE <<nA, nf>>

\* The number of events op among the first n of ev.
CountOf(ev, op, n) == Cardinality({i \in 1..n : i <= Len(ev) /\ ev[i].op = op})

\* What happens, in order, when $paste(f)$run(p)$paste(g) is expanded, when
\* $run(p)$run(p) is, and when the arguments $paste(f),$paste(g) are.
ThreeCallsEvents ==
    <<Ev("do_macro", mPaste), Ev("macro", mPaste), Ev("read", FoundF),
      Ev("do_macro", mRun), Ev("macro", mRun), Ev("start", BinDir \o <<np>>),
      Ev("do_macro", mPaste), Ev("macro", mPaste), Ev("read", <<nA, ng>>),
      Ev("wait", BinDir \o <<np>>)>>

TwoRunsEvents ==
    <<Ev("do_macro", mRun), Ev("macro", mRun), Ev("start", BinDir \o <<np>>),
      Ev("do_macro", mRun), Ev("macro", mRun), Ev("start", BinDir \o <<np>>),
      Ev("wait", BinDir \o <<np>>), Ev("wait", BinDir \o <<np>>)>>

TwoPastesEvents(name) ==
    <<Ev("do_macro", name),
      Ev("do_macro", mPaste), Ev("macro", mPaste), Ev("read", FoundF),
      Ev("do_macro", mPaste), Ev("macro", mPaste), Ev("read", <<nA, ng>>),
      Ev("macro", name)>>

IsRead(e) == e.op = "read"

\* The paths that an Expand of its own pushes, in order, when it includes
\* the file of x with no other Expand at work, and the error it ends with.
AloneInclude(x) ==
    include(x.real, NewExpand("RunMacros", x.real, x.path), NewState)

AlonePushed(x) ==
    [i \in 1..Len(SelectSeq(AloneInclude(x).ev, IsRead)) |->
        SelectSeq(AloneInclude(x).ev, IsRead)[i].arg]

\* C26: the include stack of an Expand holds only paths that this Expand
\* pushed, and however the steps of two expansions are interleaved each
\* finds and pushes the files that it finds and pushes when it runs alone,
\* and ends as it ends alone.
C26_StacksPerContext ==
    call.op = "contexts" =>
        \A c \in Context :
            /\ \A i \in 1..Len(call.ctx[c].stack) :
                  \E j \in 1..Len(call.ctx[c].pushed) :
                      call.ctx[c].pushed[j] = call.ctx[c].stack[i]
            /\ IsPrefix(call.ctx[c].stack, call.ctx[c].pushed)
            /\ IsPrefix(call.ctx[c].pushed, AlonePushed(call.ctx[c]))
            /\ call.ctx[c].state \in {"returned", "raised"} =>
                  /\ call.ctx[c].pushed = AlonePushed(call.ctx[c])
                  /\ (call.ctx[c].state = "raised")
                        <=> (AloneInclude(call.ctx[c]).err # NoErr)

\* The expansion of f has found g and pushed it while the expansion of g
\* has g on its own stack.
C26_Witness ==
    /\ call.op = "contexts"
    /\ call.ctx[1].stack = <<<<nA, nf>>, <<nA, ng>>>>
    /\ call.ctx[2].stack = <<<<nA, ng>>>>
    /\ call.ctx[2].state = "running"

(***************************************************************************)
(* Trees.process ends (C28).                                               *)
(***************************************************************************)
\* A task has raised: the first process_path, or one that a worker awaited.
TaskRaised == pc = "raised" \/ FailedWorkers # {}

\* How many times the task t was awaited.
Times(t) == Cardinality({i \in 1..Len(awaited) : awaited[i] = t})

\* The files of the build subtree with no hidden name on their path.
BuildFilesShown ==
    {p \in BuildEntries : fs[p].kind = "file" /\ ~HiddenBelow(p, 1 + Len(build))}

\* The tasks that the awaited task t put on the queue.
PutBy(t) ==
    IF t.kind = "process_file" THEN {}
    ELSE IF IsDir(find_object(t.obj))
    THEN {PathTask(ChildOf(t.obj, child)) :
             child \in {n \in scandir(t.obj) :
                           ~HiddenName(n) \/ trees.process_hidden}}
    ELSE {FileTask(find_object(t.obj), t.obj, trees.update_newer)}

\* C28: unless a task raises, Trees.process ends; and when it has ended the
\* queue is empty, no task was awaited twice, every task that an awaited
\* task put on the queue was awaited once, and every file of the build
\* subtree that is not hidden was passed to process_file once.
C28_ProcessEnds ==
    /\ <>(pc = "done" \/ TaskRaised)
    /\ [](pc = "done" =>
            /\ work_queue = <<>>
            /\ unfinished = 0
            /\ \A i \in 1..Len(awaited) :
                  /\ Times(awaited[i]) = 1
                  /\ \A t \in PutBy(awaited[i]) : Times(t) = 1
            /\ \A p \in BuildFilesShown :
                  Times(FileTask(p, RelativeTo(p, <<nA>>), trees.update_newer))
                    = 1)

\* The run has ended and w/k, whose task was put by the task of w that the
\* first process_path put, was passed to process_file.
C28_Witness ==
    /\ pc = "done"
    /\ Times(PathTask(<<nd, nw>>)) = 1
    /\ Times(PathTask(<<nd, nw, nk>>)) = 1
    /\ Times(FileTask(<<nA, nd, nw, nk>>, <<nd, nw, nk>>, FALSE)) = 1
    /\ work_queue = <<>>

(***************************************************************************)
(* Prune and the outputs of the build subtree (C29).                       *)
(***************************************************************************)
\* What set_output_path of process_file returns for the file p of root A.
SetPathOf(p) ==
    set_output_path(NewExpand("RunMacros", p, RelativeTo(p, <<nA>>)), NewState)

\* The output paths of the files of the build subtree that are not
\* input-only.
MappedOutputs ==
    {output_file(SetPathOf(p).e) :
        p \in {q \in BuildEntries :
                 /\ fs[q].kind = "file"
                 /\ ~IsInputOnly(NameOf(q))
                 /\ SetPathOf(q).err = NoErr}}

\* The files that were in the output tree when the Trees was made and that
\* a file of the build subtree maps to.
MappedExtant ==
    {p \in MappedOutputs :
        p \in trees.extant_files /\ EntryIn(fs, p).kind = "file"}

\* C29: no step, Trees.__del__ after a run that ended with an error among
\* them, removes a file that was in the output tree before the run and
\* that is the output path of a file of the build subtree that is not
\* input-only.
C29_MappedOutputsKept ==
    [][\A p \in MappedExtant : EntryIn(fs', p).kind = "file"]_vars

\* The same of the runs that end without an error.
MappedOutputsKeptUnlessAborted ==
    [][error = NoErr => \A p \in MappedExtant : EntryIn(fs', p).kind = "file"]_vars

(***************************************************************************)
(* The depth of the include stack (C27).                                   *)
(***************************************************************************)
\* The files of the overlay: the files below an input root.
OverlayFiles ==
    {p \in DOMAIN fs :
        /\ fs[p].kind = "file"
        /\ \E i \in 1..Len(inputs) : IsPrefix(inputs[i], p)}

NoPathTwice(stack) ==
    \A i, j \in 1..Len(stack) : i # j => stack[i] # stack[j]

\* No file is on the stack twice, under one path or under two.
NoFileTwice(stack) ==
    \A i, j \in 1..Len(stack) : i # j => Resolve(stack[i]) # Resolve(stack[j])

\* C27: the include stack of an Expand never holds a path twice, and it is
\* never deeper than the overlay has files.
C27_StackBoundedByFiles ==
    call.op = "contexts" =>
        \A c \in Context :
            /\ NoPathTwice(call.ctx[c].stack)
            /\ Len(call.ctx[c].stack) <= Cardinality(OverlayFiles)

\* The part that holds: no path is on the stack twice.
StackHoldsNoPathTwice ==
    call.op = "contexts" => \A c \in Context : NoPathTwice(call.ctx[c].stack)

\* The cycle guard taken by file: no file is being included inside itself.
StackHoldsNoFileTwice ==
    call.op = "contexts" => \A c \in Context : NoFileTwice(call.ctx[c].stack)

(***************************************************************************)
(* Macro output is not scanned again (C25).                                *)
(***************************************************************************)
PathCall == CallText(mPath, NoBytes, NoBytes)

\* C25: what a macro returns is spliced into the result as it is, between
\* the literal text before and after the call, and is not scanned for macro
\* calls: $paste(f) gives the bytes of f whatever they are, a call of $path
\* or of $include among them; $paste(f)$run(p)$paste(g) gives the bytes of f,
\* the output of p and the bytes of g in that order; x$run(p)y gives x, the
\* output of p, y; and $include(f) of a file that holds \$path gives $path,
\* the call that the escape left.
C25_OutputNotRescanned ==
    call.op = "expand" =>
        /\ text = CallText(mPaste, nf, NoBytes) =>
              call.res.err = NoErr /\ call.res.out = ReadBytes(FoundF)
        /\ text = ThreeCalls =>
              /\ call.res.err = NoErr
              /\ call.res.out
                    = ReadBytes(FoundF) \o <<"o">> \o ReadBytes(<<nA, ng>>)
        /\ text = <<"x">> \o CallText(mRun, np, NoBytes) \o <<"y">> =>
              call.res.err = NoErr /\ call.res.out = <<"x", "o", "y">>
        /\ (text = CallText(mInclude, nf, NoBytes)
              /\ ReadBytes(FoundF) = <<BS>> \o PathCall) =>
              call.res.err = NoErr /\ call.res.out = PathCall

\* $paste(f) has returned the call $path that f holds.
C25_Witness ==
    /\ call.op = "expand"
    /\ text = CallText(mPaste, nf, NoBytes)
    /\ ReadBytes(FoundF) = PathCall
    /\ call.res.err = NoErr
    /\ call.res.out = PathCall

(***************************************************************************)
(* Brackets (C9, C10).                                                     *)
(***************************************************************************)
Parsed == call.op = "parse_arguments"

\* The closing character of an opening bracket.
Closer(c) == IF c = "(" THEN ")" ELSE "}"

\* The brackets open after byte k of the text, innermost last, for the
\* region that the bracket at position s opens: a bracket is closed by the
\* next closing character of its own kind at its depth, and nothing is open
\* once the bracket at s is closed.
RECURSIVE OpenAfter(_, _)
OpenAfter(s, k) ==
    IF k = s THEN <<Closer(text[s])>>
    ELSE IF OpenAfter(s, k - 1) = <<>> THEN <<>>
    ELSE IF text[k] = Last(OpenAfter(s, k - 1)) THEN Front(OpenAfter(s, k - 1))
    ELSE IF text[k] \in {"(", "{"}
    THEN Append(OpenAfter(s, k - 1), Closer(text[k]))
    ELSE OpenAfter(s, k - 1)

\* The bracket at s is still open at the end of the text.
Unterminated(s) == OpenAfter(s, Len(text)) # <<>>

\* C9, amended: a call whose opening bracket is still open at the end of the
\* text fails with "missing X", X being the closing character of the
\* innermost bracket still open there: the call's own when every bracket
\* nested in the region is closed; a closing bracket of the other kind does
\* not close a bracket.
C9_MissingInnermost ==
    (Parsed /\ Unterminated(call.arg_start)) =>
        /\ call.res.err = (IF Last(OpenAfter(call.arg_start, Len(text))) = ")"
                           THEN "missing )" ELSE "missing }")
        /\ Len(OpenAfter(call.arg_start, Len(text))) = 1 =>
              call.res.err = (IF text[call.arg_start] = "(" THEN "missing )"
                              ELSE "missing }")

\* C9, witness: the text "(}" parsed from its "(" fails with "missing )".
C9_Witness ==
    /\ Parsed
    /\ text = <<"(", "}">>
    /\ call.arg_start = 1
    /\ call.res.err = "missing )"

\* C9, as stated: a call whose opening bracket is still open at the end of
\* the text fails with "missing )" when that bracket is "(" and with
\* "missing }" when it is "{".
C9_AsStated ==
    (Parsed /\ Unterminated(call.arg_start)) =>
        call.res.err = (IF text[call.arg_start] = "(" THEN "missing )"
                        ELSE "missing }")

\* The position of the closing delimiter of the list that opens at s: the
\* first byte after which nothing is open.
ClosedAt(s) == CHOOSE k \in (s + 1)..Len(text) :
                  OpenAfter(s, k) = <<>> /\ OpenAfter(s, k - 1) # <<>>

\* The commas of the list that opens at s that are at depth 1 and not
\* preceded by a backslash.
Separators(s) ==
    {k \in (s + 1)..(ClosedAt(s) - 1) :
        /\ Len(OpenAfter(s, k)) = 1
        /\ text[k] = ","
        /\ text[k - 1] # BS}

\* The cuts of the list that opens at s, in order: s, the separators and the
\* closing delimiter.
Cuts(s) == {s, ClosedAt(s)} \cup Separators(s)

NthCut(s, n) ==
    CHOOSE k \in Cuts(s) : Cardinality({j \in Cuts(s) : j < k}) = n - 1

\* C10: a list whose opening bracket is closed is split at exactly the
\* commas at depth 1 that no backslash precedes, every other byte staying in
\* its argument; it ends at the first unpaired closing delimiter and the
\* position returned is the one just after it.
C10_SplitAtDepthOne ==
    (Parsed /\ ~Unterminated(call.arg_start)) =>
        /\ call.res.err = NoErr
        /\ call.res.pos = ClosedAt(call.arg_start) + 1
        /\ Len(call.res.args) = Cardinality(Separators(call.arg_start)) + 1
        /\ \A n \in 1..Len(call.res.args) :
              call.res.args[n] =
                 SubSeq(text, NthCut(call.arg_start, n) + 1,
                        NthCut(call.arg_start, n + 1) - 1)

\* C10, witness: "({,})" parsed from its "(" gives the one argument "{,}"
\* and the position after the ")".
C10_Witness ==
    /\ Parsed
    /\ text = <<"(", "{", ",", "}", ")">>
    /\ call.arg_start = 1
    /\ call.res.args = << <<"{", ",", "}">> >>
    /\ call.res.pos = 6

=============================================================================
